---- MODULE Spec2Model ----
(***************************************************************************)
(* The software-rendered terminal window of wezterm                        *)
(* (src/frontend/software/termwindow.rs): the TermWindow callbacks         *)
(* (paint, resize, can_close, mouse_event), the damage renderer            *)
(* (paint_tab, render_screen_line) and the glyph cache over the texture    *)
(* atlas (cached_glyph, load_glyph, recreate_texture_atlas).               *)
(*                                                                         *)
(* Indices are 0-based as in the source; TLA+ sequences are 1-based, so    *)
(* element i of a Rust Vec is s[i + 1].  Floating point values are exact   *)
(* rationals <<num, den>> with den > 0.                                    *)
(***************************************************************************)
EXTENDS Integers, Sequences, FiniteSets, TLC

VARIABLES
    mux_tabs,     \* Mux.tabs: ids of the tabs registered in the session
    spawn_queue,  \* spawn_new_window futures queued on the GUI executor
    win_tabs,     \* mux Window.tabs: the window's tab ids, in order
    win_active,   \* mux Window.active: 0-based index into win_tabs
    term,         \* per tab: the terminal model (rows, cols, lines, dirty)
    fonts,        \* FontConfiguration: font_scale and dpi_scale
    cell_size,    \* TermWindow.cell_size
    dimensions,   \* TermWindow.dimensions
    decor,        \* TermWindow.descender, descender_row, ..., strike_row
    glyph_cache,  \* TermWindow.glyph_cache: GlyphKey -> CachedGlyph
    atlas,        \* TermWindow.atlas
    pc,           \* position of the GUI thread inside TermWindow::paint
    frame,        \* what the current paint request has done so far
    cache_gen,    \* per cache generation: loads and lookups of each key
    out           \* what the last callback returned / handed to its callee

vars == <<mux_tabs, spawn_queue, win_tabs, win_active, term, fonts, cell_size, dimensions,
          decor, glyph_cache, atlas, pc, frame, cache_gen, out>>

(***************************************************************************)
(* Bounds of the model.                                                    *)
(***************************************************************************)
\* Largest number of windows spawn_new_window adds to the session, queued
\* ones included.
MaxSpawnedWindows == 1
\* Largest number of tabs a window holds.
MaxTabs == 2
\* Rows and columns of the terminal the window is created for.
MaxRows == 2
MaxCols == 2
\* Number of font size steps (x0.9 / x1.1) away from a reset font scale.
MaxFontSteps == 1
\* Side of the atlas a window is created with, scaled down from the 4096 of
\* new_window so that a handful of glyphs exhausts it.
InitialAtlasSide == 16
\* Load attempts counted per key and cache generation (the counter saturates).
LoadCap == 2

\* The largest glyph advance, in pixels, the fit scale is computed for.
MaxAdvance == 20
\* The largest descender, in pixels below and above the baseline, the
\* decoration rows are computed for.
MaxDescender == 18
\* The largest number of tabs, forward or backward, a relative tab
\* activation moves by.
MaxDelta == 7

(***************************************************************************)
(* Exact arithmetic for the f64 values of the source.                      *)
(***************************************************************************)
Abs(n) == IF n < 0 THEN -n ELSE n

Min(a, b) == IF a < b THEN a ELSE b

RECURSIVE GCD(_, _)
GCD(a, b) == IF b = 0 THEN a ELSE GCD(b, a % b)

\* The rational n/d in lowest terms.
Rat(n, d) ==
    LET g == GCD(Abs(n), d) IN IF n = 0 THEN <<0, 1>> ELSE <<n \div g, d \div g>>

RInt(n) == <<n, 1>>
RMul(a, b) == Rat(a[1] * b[1], a[2] * b[2])
RAdd(a, b) == Rat(a[1] * b[2] + b[1] * a[2], a[2] * b[2])
RSub(a, b) == Rat(a[1] * b[2] - b[1] * a[2], a[2] * b[2])
RLess(a, b) == a[1] * b[2] < b[1] * a[2]
\* f64::ceil, f64::floor and the `as isize` cast (truncation towards zero).
RCeil(a) == -((-a[1]) \div a[2])
RFloor(a) == a[1] \div a[2]
RTrunc(a) == IF a[1] < 0 THEN -((-a[1]) \div a[2]) ELSE a[1] \div a[2]

\* `x as u16` of a non-negative usize / isize.
AsU16(x) == x % 65536

(***************************************************************************)
(* FontConfiguration and the fonts it loads.  The source only calls them   *)
(* (default_font_metrics, change_scaling, shape, rasterize_glyph); the     *)
(* fonts here are one primary font and one fallback font whose metrics     *)
(* and bitmaps scale linearly with font_scale * dpi / 96.                  *)
(***************************************************************************)
\* font_scale * dpi_scale
FontFactor(f) == RMul(f.font_scale, f.dpi_scale)

\* FontConfiguration::default_font_metrics: cell 8 x 16, descender -3 at
\* scale 1.0 and 96 dpi.
default_font_metrics(f) ==
    [cell_width  |-> RMul(RInt(8), FontFactor(f)),
     cell_height |-> RMul(RInt(16), FontFactor(f)),
     descender   |-> RMul(RInt(-3), FontFactor(f))]

\* The characters a terminal line holds in this model.
Chars == {"A", "W", " ", "R", "T", "X"}

\* Cells a character occupies in the line, and bytes it occupies in the
\* cluster text (the wide character is a 3-byte UTF-8 sequence).
CellWidth(ch) == IF ch = "W" THEN 2 ELSE 1
ByteLen(ch) == IF ch = "W" THEN 3 ELSE 1

\* Font::rasterize_glyph at scale 1.0 and 96 dpi: "R" does not rasterize,
\* " " has an empty bitmap, "T" is a fallback glyph that rises above the
\* primary font's ascent.
BaseGlyph(ch) ==
    CASE ch = "A" -> [ok |-> TRUE, font_idx |-> 0, glyph_pos |-> 36, width |-> 7,
                      height |-> 10, bearing_x |-> 0, bearing_y |-> 10]
      [] ch = "W" -> [ok |-> TRUE, font_idx |-> 1, glyph_pos |-> 90, width |-> 14,
                      height |-> 14, bearing_x |-> 1, bearing_y |-> 13]
      [] ch = " " -> [ok |-> TRUE, font_idx |-> 0, glyph_pos |-> 3, width |-> 0,
                      height |-> 0, bearing_x |-> 0, bearing_y |-> 0]
      [] ch = "R" -> [ok |-> FALSE, font_idx |-> 0, glyph_pos |-> 50, width |-> 0,
                      height |-> 0, bearing_x |-> 0, bearing_y |-> 0]
      [] ch = "T" -> [ok |-> TRUE, font_idx |-> 1, glyph_pos |-> 91, width |-> 7,
                      height |-> 16, bearing_x |-> 0, bearing_y |-> 15]
      [] OTHER    -> [ok |-> FALSE, font_idx |-> 0, glyph_pos |-> 0, width |-> 0,
                      height |-> 0, bearing_x |-> 0, bearing_y |-> 0]

\* The character a (font_idx, glyph_pos) pair of a GlyphInfo stands for.
CharOfGlyph(font_idx, glyph_pos) ==
    CHOOSE ch \in Chars :
        BaseGlyph(ch).font_idx = font_idx /\ BaseGlyph(ch).glyph_pos = glyph_pos

\* Font::rasterize_glyph under the current scaling: the bitmap and its
\* bearings, or an error.
rasterize_glyph(f, font_idx, glyph_pos) ==
    LET g == BaseGlyph(CharOfGlyph(font_idx, glyph_pos))
        k == FontFactor(f)
    IN  [ok        |-> g.ok,
         width     |-> RCeil(RMul(RInt(g.width), k)),
         height    |-> RCeil(RMul(RInt(g.height), k)),
         bearing_x |-> RMul(RInt(g.bearing_x), k),
         bearing_y |-> RMul(RInt(g.bearing_y), k)]

\* Font::shape of a cluster text: one GlyphInfo per character, `cluster`
\* being the byte offset of the character in the text; the fallback glyph
\* "T" is shifted right by one pixel; a text holding "X" fails to shape.
RECURSIVE ShapeFrom(_, _, _, _)
ShapeFrom(f, text, i, byte) ==
    IF i > Len(text) THEN <<>>
    ELSE LET ch == text[i]
             k == FontFactor(f)
         IN  <<[cluster   |-> byte,
                font_idx  |-> BaseGlyph(ch).font_idx,
                glyph_pos |-> BaseGlyph(ch).glyph_pos,
                num_cells |-> CellWidth(ch),
                x_advance |-> RMul(RInt(8 * CellWidth(ch)), k),
                x_offset  |-> RMul(RInt(IF ch = "T" THEN 1 ELSE 0), k),
                y_offset  |-> RInt(0)]>>
             \o ShapeFrom(f, text, i + 1, byte + ByteLen(ch))

shape(f, text) ==
    IF \E i \in 1..Len(text) : text[i] = "X"
    THEN [ok |-> FALSE, glyphs |-> <<>>]
    ELSE [ok |-> TRUE, glyphs |-> ShapeFrom(f, text, 1, 0)]

(***************************************************************************)
(* The texture atlas (window::bitmaps::atlas::Atlas).  Sprites are packed  *)
(* left to right into a strip of length `side`; an allocation that does    *)
(* not fit fails with OutOfTextureSpace carrying the smallest side that    *)
(* would have held it.  `id` is the identity of the backing surface.       *)
(***************************************************************************)
Atlas_new(id, size) == [id |-> id, side |-> size, left |-> 0]

Atlas_allocate(a, width, height) ==
    IF a.left + width > a.side
    THEN [ok |-> FALSE, size |-> a.left + width, atlas |-> a,
          sprite |-> [tex |-> a.id, left |-> 0, width |-> 0, height |-> 0]]
    ELSE [ok |-> TRUE, size |-> a.side,
          atlas |-> [a EXCEPT !.left = @ + width],
          sprite |-> [tex |-> a.id, left |-> a.left, width |-> width, height |-> height]]

\* Rc::new(ImageTexture::new(..)): a surface distinct from every surface
\* that is still referenced, by the atlas or by a sprite of a cached glyph.
LiveSurfaces(a, cache) ==
    {a.id} \cup {cache[k].texture.tex : k \in {x \in DOMAIN cache : cache[x].has_texture}}

FreshSurface(a, cache) ==
    CHOOSE i \in 0..(Cardinality(LiveSurfaces(a, cache))) : i \notin LiveSurfaces(a, cache)

(***************************************************************************)
(* Terminal lines (term::Line) and their clusters.                         *)
(***************************************************************************)
\* CellAttributes used by the lines of this model.
Attrs(name) ==
    CASE name = "deco" -> [bold |-> TRUE, underline |-> "Double", strikethrough |-> TRUE,
                           hyperlink |-> "none"]
      [] name = "under" -> [bold |-> FALSE, underline |-> "Single", strikethrough |-> FALSE,
                           hyperlink |-> "none"]
      [] OTHER         -> [bold |-> FALSE, underline |-> "None", strikethrough |-> FALSE,
                           hyperlink |-> "none"]

\* The lines a terminal shows in this model: the visible cells of a line,
\* each a character and the name of its attributes.
LineCatalog ==
    [blank   |-> << <<" ", "plain">>, <<" ", "plain">> >>,
     wide    |-> << <<"W", "deco">> >>,
     tall    |-> << <<"T", "plain">>, <<"A", "under">> >>,
     norast  |-> << <<"A", "plain">>, <<"R", "plain">> >>,
     noshape |-> << <<"X", "plain">>, <<"A", "plain">> >>,
     empty   |-> << >>]

BlankLine == "blank"
LineIds == DOMAIN LineCatalog

\* Line::cluster: the maximal runs of visible cells with equal attributes;
\* byte_to_cell_idx holds, for every byte of the run's text, the index of
\* the cell the byte belongs to.
RECURSIVE ClusterFrom(_, _, _, _)
ClusterFrom(cells, i, cell_idx, acc) ==
    IF i > Len(cells) THEN acc
    ELSE LET ch    == cells[i][1]
             a     == Attrs(cells[i][2])
             bytes == [b \in 1..ByteLen(ch) |-> cell_idx]
             n     == Len(acc)
         IN  IF n > 0 /\ acc[n].attrs = a
             THEN ClusterFrom(cells, i + 1, cell_idx + CellWidth(ch),
                      [acc EXCEPT ![n] = [attrs |-> a,
                                          text |-> Append(acc[n].text, ch),
                                          byte_to_cell_idx |-> acc[n].byte_to_cell_idx \o bytes]])
             ELSE ClusterFrom(cells, i + 1, cell_idx + CellWidth(ch),
                      Append(acc, [attrs |-> a, text |-> <<ch>>,
                                   byte_to_cell_idx |-> bytes]))

cluster(line_id) == ClusterFrom(LineCatalog[line_id], 1, 0, <<>>)

\* FontConfiguration::match_style: the TextStyle for a cell's attributes.
match_style(attrs) == IF attrs.bold THEN "bold" ELSE "regular"

(***************************************************************************)
(* The glyph cache: cached_glyph and load_glyph.                           *)
(***************************************************************************)
GlyphKey(info, style) ==
    [font_idx |-> info.font_idx, glyph_pos |-> info.glyph_pos, style |-> style]

\* Every key the lines of the model can ask for.
AllKeys ==
    {[font_idx |-> BaseGlyph(ch).font_idx, glyph_pos |-> BaseGlyph(ch).glyph_pos,
      style |-> st] : ch \in Chars \ {"X"}, st \in {"regular", "bold"}}

NoError == [kind |-> "none", size |-> 0]
OutOfTextureSpace(size) == [kind |-> "OutOfTextureSpace", size |-> size]
OtherError(what) == [kind |-> what, size |-> 0]

NoSprite == [tex |-> 0, left |-> 0, width |-> 0, height |-> 0]

NoGlyph ==
    [has_color |-> FALSE, has_texture |-> FALSE, texture |-> NoSprite,
     x_offset |-> RInt(0), y_offset |-> RInt(0),
     bearing_x |-> RInt(0), bearing_y |-> RInt(0), scale |-> RInt(1)]

\* The fit scale as it would be if the advance per cell were compared
\* without `.floor()`.
FitScale_exact(info, glyph, cell_width, cell_height) ==
    IF RLess(cell_width, RMul(info.x_advance, <<1, info.num_cells>>))
    THEN RMul(RInt(info.num_cells), RMul(cell_width, <<info.x_advance[2], info.x_advance[1]>>))
    ELSE IF RLess(cell_height, RInt(glyph.height))
         THEN RMul(cell_height, <<1, glyph.height>>)
         ELSE RInt(1)

\* The fit scale of load_glyph.
FitScale(info, glyph, cell_width, cell_height) ==
    IF RLess(cell_width, RInt(RFloor(RMul(info.x_advance, <<1, info.num_cells>>))))
    THEN RMul(RInt(info.num_cells), RMul(cell_width, <<info.x_advance[2], info.x_advance[1]>>))
    ELSE IF RLess(cell_height, RInt(glyph.height))
         THEN RMul(cell_height, <<1, glyph.height>>)
         ELSE RInt(1)

\* load_glyph after the allocation: the CachedGlyph with its sprite, or
\* the OutOfTextureSpace error of Atlas::allocate.
load_glyph_allocated(a, glyph, scale, x_offset, y_offset, alloc) ==
    IF ~alloc.ok
    THEN [err |-> OutOfTextureSpace(alloc.size), atlas |-> a, glyph |-> NoGlyph]
    ELSE [err |-> NoError, atlas |-> alloc.atlas,
          glyph |-> [has_color |-> FALSE, has_texture |-> TRUE, texture |-> alloc.sprite,
                     x_offset |-> x_offset, y_offset |-> y_offset,
                     bearing_x |-> RMul(glyph.bearing_x, scale),
                     bearing_y |-> RMul(glyph.bearing_y, scale), scale |-> RInt(1)]]

\* load_glyph as it would be if a whitespace glyph stored the scale 1.0
\* like a glyph with a sprite.
load_glyph_offsets_whitespace_unscaled(a, glyph, scale, x_offset, y_offset) ==
    IF glyph.width = 0 \/ glyph.height = 0
    THEN [err |-> NoError, atlas |-> a,
          glyph |-> [has_color |-> FALSE, has_texture |-> FALSE, texture |-> NoSprite,
                     x_offset |-> x_offset, y_offset |-> y_offset,
                     bearing_x |-> RInt(0), bearing_y |-> RInt(0), scale |-> RInt(1)]]
    ELSE load_glyph_allocated(a, glyph, scale, x_offset, y_offset,
             IF scale # RInt(1)
             THEN Atlas_allocate(a, RTrunc(RMul(RInt(glyph.width), scale)),
                                 RTrunc(RMul(RInt(glyph.height), scale)))
             ELSE Atlas_allocate(a, glyph.width, glyph.height))

\* load_glyph once the offsets are scaled: a whitespace glyph has no sprite;
\* any other bitmap is scaled (Image::scale_by truncates the scaled width
\* and height) and allocated in the atlas.
load_glyph_offsets(a, glyph, scale, x_offset, y_offset) ==
    IF glyph.width = 0 \/ glyph.height = 0
    THEN [err |-> NoError, atlas |-> a,
          glyph |-> [has_color |-> FALSE, has_texture |-> FALSE, texture |-> NoSprite,
                     x_offset |-> x_offset, y_offset |-> y_offset,
                     bearing_x |-> RInt(0), bearing_y |-> RInt(0), scale |-> scale]]
    ELSE load_glyph_allocated(a, glyph, scale, x_offset, y_offset,
             IF scale # RInt(1)
             THEN Atlas_allocate(a, RTrunc(RMul(RInt(glyph.width), scale)),
                                 RTrunc(RMul(RInt(glyph.height), scale)))
             ELSE Atlas_allocate(a, glyph.width, glyph.height))

\* load_glyph once the fit scale is known.
load_glyph_scaled(a, info, glyph, scale) ==
    IF scale # RInt(1)
    THEN load_glyph_offsets(a, glyph, scale, RMul(info.x_offset, scale),
                            RMul(info.y_offset, scale))
    ELSE load_glyph_offsets(a, glyph, scale, info.x_offset, info.y_offset)

\* load_glyph once the glyph is rasterized.
load_glyph_rasterized(a, info, metrics, glyph) ==
    IF ~glyph.ok
    THEN [err |-> OtherError("rasterize_glyph"), atlas |-> a, glyph |-> NoGlyph]
    ELSE load_glyph_scaled(a, info, glyph,
                           FitScale(info, glyph, metrics.cell_width, metrics.cell_height))

\* load_glyph: rasterize, scale to fit and allocate in the atlas `a`.
\* The result holds the new CachedGlyph and atlas, or the error.
load_glyph(f, a, info, style) ==
    load_glyph_rasterized(a, info, default_font_metrics(f),
                          rasterize_glyph(f, info.font_idx, info.glyph_pos))

\* The state a frame threads through its glyph lookups: the cache, the
\* atlas, and per key the number of loads (calls of load_glyph), of stores
\* (loads that succeeded) and the entries handed out.
CountLoad(gen, key) ==
    [gen EXCEPT !.loads[key] = Min(@ + 1, LoadCap)]

CountStore(gen, key) ==
    [gen EXCEPT !.stores[key] = Min(@ + 1, LoadCap)]

Serve(gen, key, entry) ==
    [gen EXCEPT !.served[key] = @ \cup {entry}]

\* cached_glyph on a miss as it would be if a failed load were remembered
\* by an entry without sprite.
cached_glyph_loaded_caches_failure(rs, key, ld) ==
    IF ld.err # NoError
    THEN [rs EXCEPT !.err = ld.err, !.gen = CountLoad(rs.gen, key),
                    !.cache = [k \in DOMAIN rs.cache \cup {key} |->
                                  IF k = key THEN NoGlyph ELSE rs.cache[k]]]
    ELSE [rs EXCEPT !.glyph = ld.glyph,
                    !.atlas = ld.atlas,
                    !.cache = [k \in DOMAIN rs.cache \cup {key} |->
                                  IF k = key THEN ld.glyph ELSE rs.cache[k]],
                    !.gen = Serve(CountStore(CountLoad(rs.gen, key), key), key, ld.glyph)]

\* cached_glyph: the cached entry of the key, loading it on a miss.
\* cached_glyph on a miss, `ld` being what load_glyph returned: an error
\* leaves the cache as it is, a glyph is inserted and returned.
cached_glyph_loaded(rs, key, ld) ==
    IF ld.err # NoError
    THEN [rs EXCEPT !.err = ld.err, !.gen = CountLoad(rs.gen, key)]
    ELSE [rs EXCEPT !.glyph = ld.glyph,
                    !.atlas = ld.atlas,
                    !.cache = [k \in DOMAIN rs.cache \cup {key} |->
                                  IF k = key THEN ld.glyph ELSE rs.cache[k]],
                    !.gen = Serve(CountStore(CountLoad(rs.gen, key), key), key, ld.glyph)]

cached_glyph_keyed(f, rs, info, style, key) ==
    IF key \in DOMAIN rs.cache
    THEN [rs EXCEPT !.glyph = rs.cache[key],
                    !.gen = Serve(rs.gen, key, rs.cache[key])]
    ELSE cached_glyph_loaded(rs, key, load_glyph(f, rs.atlas, info, style))

cached_glyph(f, rs, info, style) ==
    cached_glyph_keyed(f, rs, info, style, GlyphKey(info, style))

(***************************************************************************)
(* The damage renderer: render_screen_line and paint_tab.  `w` is the      *)
(* TermWindow (cell_size, dimensions, decor, fonts), `t` the terminal of   *)
(* the tab, `rs` the state of the frame: cache, atlas, the draw calls      *)
(* issued on the PaintContext so far (ops) and the error, if any.          *)
(* w.overflow_checks tells how the program was built: with overflow checks *)
(* (cargo's debug profile) a usize subtraction that underflows panics,     *)
(* without them (release) it wraps; rs.panic is set once that happened.    *)
(***************************************************************************)
Op(op, x, y, width, height, line_idx, cell_idx) ==
    [op |-> op, x |-> x, y |-> y, w |-> width, h |-> height,
     line |-> line_idx, cell |-> cell_idx]

\* The underline to draw: a highlighted hyperlink without underline gets one.
UnderlineOf(attrs, current_highlight) ==
    IF attrs.hyperlink # "none" /\ current_highlight # "none"
       /\ attrs.hyperlink = current_highlight /\ attrs.underline = "None"
    THEN "Single"
    ELSE attrs.underline

\* ctx.draw_image of a glyph's sprite: the call keeps the cached glyph and
\* the index of the glyph's cell it was issued for.
ImageOp(x, y, glyph, glyph_idx, line_idx, cell_idx) ==
    [op |-> "draw_image", x |-> x, y |-> y, w |-> glyph.texture.width,
     h |-> glyph.texture.height, line |-> line_idx, cell |-> cell_idx,
     glyph_idx |-> glyph_idx, glyph |-> glyph]

\* The draw calls for one cell as they would be if every cell of a glyph,
\* not only its first, were shifted by `left`.
CellOps_left_in_every_cell(w, line_idx, cell_idx, glyph_idx, glyph, attrs, underline) ==
    LET ox   == cell_idx * w.cell_size.width
        oy   == w.cell_size.height * line_idx
        left == RAdd(glyph.x_offset, glyph.bearing_x)
        top  == RSub(RAdd(RInt(w.cell_size.height), w.decor.descender),
                     RAdd(glyph.y_offset, glyph.bearing_y))
        line(row) == Op("draw_line", ox, oy + row, w.cell_size.width, 0, line_idx, cell_idx)
    IN  <<Op("clear_rect", ox, oy, w.cell_size.width, w.cell_size.height, line_idx, cell_idx)>>
        \o (CASE underline = "Single" -> <<line(w.decor.descender_plus_one)>>
              [] underline = "Double" -> <<line(w.decor.descender_row),
                                           line(w.decor.descender_plus_two)>>
              [] OTHER -> <<>>)
        \o (IF attrs.strikethrough THEN <<line(w.decor.strike_row)>> ELSE <<>>)
        \o (IF glyph.has_texture
            THEN <<ImageOp(RTrunc(RAdd(RInt(ox), left)),
                           RTrunc(RAdd(RInt(oy), top)),
                           glyph, glyph_idx, line_idx, cell_idx)>>
            ELSE <<>>)

\* The draw calls for one cell of a glyph (body of the glyph_idx loop).
CellOps(w, line_idx, cell_idx, glyph_idx, glyph, attrs, underline) ==
    LET ox   == cell_idx * w.cell_size.width
        oy   == w.cell_size.height * line_idx
        left == RAdd(glyph.x_offset, glyph.bearing_x)
        top  == RSub(RAdd(RInt(w.cell_size.height), w.decor.descender),
                     RAdd(glyph.y_offset, glyph.bearing_y))
        line(row) == Op("draw_line", ox, oy + row, w.cell_size.width, 0, line_idx, cell_idx)
    IN  <<Op("clear_rect", ox, oy, w.cell_size.width, w.cell_size.height, line_idx, cell_idx)>>
        \o (CASE underline = "Single" -> <<line(w.decor.descender_plus_one)>>
              [] underline = "Double" -> <<line(w.decor.descender_row),
                                           line(w.decor.descender_plus_two)>>
              [] OTHER -> <<>>)
        \o (IF attrs.strikethrough THEN <<line(w.decor.strike_row)>> ELSE <<>>)
        \o (IF glyph.has_texture
            THEN <<ImageOp(RTrunc(RAdd(RInt(ox), IF glyph_idx = 0 THEN left ELSE RInt(0))),
                           RTrunc(RAdd(RInt(oy), top)),
                           glyph, glyph_idx, line_idx, cell_idx)>>
            ELSE <<>>)

\* The loop over the cells of a glyph as it would be if it did not stop
\* at the last physical column.
RECURSIVE GlyphCells_unbounded(_, _, _, _, _, _, _, _, _)
GlyphCells_unbounded(w, num_cols, rs, line_idx, cell_idx0, glyph_idx, info, attrs, underline) ==
    LET cell_idx == cell_idx0 + glyph_idx IN
    IF glyph_idx >= info.num_cells
    THEN rs
    ELSE GlyphCells_unbounded(w, num_cols,
             [rs EXCEPT !.last_cell_idx = cell_idx,
                        !.ops = @ \o CellOps(w, line_idx, cell_idx, glyph_idx,
                                             rs.glyph, attrs, underline)],
             line_idx, cell_idx0, glyph_idx + 1, info, attrs, underline)

\* `for glyph_idx in 0..info.num_cells`, leaving the loop at the first cell
\* that is not a physical column.
RECURSIVE GlyphCells(_, _, _, _, _, _, _, _, _)
GlyphCells(w, num_cols, rs, line_idx, cell_idx0, glyph_idx, info, attrs, underline) ==
    LET cell_idx == cell_idx0 + glyph_idx IN
    IF glyph_idx >= info.num_cells \/ cell_idx >= num_cols
    THEN rs
    ELSE GlyphCells(w, num_cols,
             [rs EXCEPT !.last_cell_idx = cell_idx,
                        !.ops = @ \o CellOps(w, line_idx, cell_idx, glyph_idx,
                                             rs.glyph, attrs, underline)],
             line_idx, cell_idx0, glyph_idx + 1, info, attrs, underline)

\* `for info in &glyph_info`: `got` is the frame state after
\* `self.cached_glyph(info, style)?` for glyph i of the cluster.
RECURSIVE ClusterGlyphs(_, _, _, _, _, _, _)
RECURSIVE ClusterGlyph(_, _, _, _, _, _, _)
ClusterGlyph(w, t, got, line_idx, cl, infos, i) ==
    IF got.err # NoError THEN got
    ELSE ClusterGlyphs(w, t,
             GlyphCells(w, t.cols, got, line_idx,
                        cl.byte_to_cell_idx[infos[i].cluster + 1], 0, infos[i], cl.attrs,
                        UnderlineOf(cl.attrs, t.highlight)),
             line_idx, cl, infos, i + 1)

ClusterGlyphs(w, t, rs, line_idx, cl, infos, i) ==
    IF i > Len(infos) THEN rs
    ELSE ClusterGlyph(w, t, cached_glyph(w.fonts, rs, infos[i], match_style(cl.attrs)),
                      line_idx, cl, infos, i)

\* `for cluster in cell_clusters`: `sh` is what font.shape returned for
\* cluster i, `r` the frame state after the glyphs of the cluster.
RECURSIVE LineClusters(_, _, _, _, _, _)
RECURSIVE LineClusterDone(_, _, _, _, _, _)
RECURSIVE LineClusterShaped(_, _, _, _, _, _, _)
LineClusterDone(w, t, r, line_idx, clusters, i) ==
    IF r.err # NoError THEN r
    ELSE LineClusters(w, t, r, line_idx, clusters, i + 1)

LineClusterShaped(w, t, rs, line_idx, clusters, i, sh) ==
    IF ~sh.ok THEN [rs EXCEPT !.err = OtherError("shape")]
    ELSE LineClusterDone(w, t,
             ClusterGlyphs(w, t, rs, line_idx, clusters[i], sh.glyphs, 1),
             line_idx, clusters, i)

LineClusters(w, t, rs, line_idx, clusters, i) ==
    IF i > Len(clusters) THEN rs
    ELSE LineClusterShaped(w, t, rs, line_idx, clusters, i,
                           shape(w.fonts, clusters[i].text))

\* The usize subtraction `pixels - pixels_of_cells` of a margin panics: the
\* cells are larger than the window and the build checks overflow.  In a
\* build that wraps, `(pixels - pixels_of_cells) as isize` is 2^64 + the
\* difference as a usize and the (negative) difference again as an isize.
MarginPanics(w, pixels, pixels_of_cells) ==
    w.overflow_checks /\ pixels_of_cells > pixels

\* The clears after the clusters: the cells right of the last one rendered,
\* then the margin right of the last column, unless its width panics.
TrailingOps(w, num_cols, line_idx, last_cell_idx) ==
    [i \in 1..(IF num_cols > last_cell_idx + 1 THEN num_cols - (last_cell_idx + 1) ELSE 0) |->
        Op("clear_rect", (last_cell_idx + i) * w.cell_size.width,
           w.cell_size.height * line_idx,
           w.cell_size.width, w.cell_size.height, line_idx, last_cell_idx + i)]
    \o IF MarginPanics(w, w.dimensions.pixel_width, num_cols * w.cell_size.width) THEN <<>>
       ELSE <<Op("clear_margin", num_cols * w.cell_size.width,
                 w.cell_size.height * line_idx,
                 w.dimensions.pixel_width - num_cols * w.cell_size.width,
                 w.cell_size.height, line_idx, num_cols)>>

\* The end of render_screen_line, `r` being the frame state after the
\* cluster loop.
render_screen_line_end(w, t, r, line_idx) ==
    IF r.err # NoError THEN r
    ELSE [r EXCEPT !.ops = @ \o TrailingOps(w, t.cols, line_idx, r.last_cell_idx),
                   !.panic = MarginPanics(w, w.dimensions.pixel_width,
                                          t.cols * w.cell_size.width)]

render_screen_line(w, t, rs, line_idx) ==
    render_screen_line_end(w, t,
        LineClusters(w, t, [rs EXCEPT !.last_cell_idx = 0], line_idx,
                     cluster(t.lines[line_idx + 1]), 1),
        line_idx)

\* Renderable::get_dirty_lines: the dirty lines by ascending index.
RECURSIVE SortedSeq(_)
SortedSeq(S) ==
    IF S = {} THEN <<>>
    ELSE LET m == CHOOSE x \in S : \A y \in S : x <= y
         IN  <<m>> \o SortedSeq(S \ {m})

get_dirty_lines(t) == SortedSeq(t.dirty)

\* `for (line_idx, line, selrange) in dirty_lines { render_screen_line(..)? }`
RECURSIVE RenderLines(_, _, _, _, _)
RECURSIVE RenderedLine(_, _, _, _, _)
RenderedLine(w, t, r, lines, i) ==
    IF r.err # NoError \/ r.panic THEN r
    ELSE RenderLines(w, t, [r EXCEPT !.rendered = Append(@, lines[i])], lines, i + 1)

RenderLines(w, t, rs, lines, i) ==
    IF i > Len(lines) THEN rs
    ELSE RenderedLine(w, t, render_screen_line(w, t, rs, lines[i]), lines, i)

\* The end of paint_tab as it would be if the lines were marked clean after
\* a failed frame too.
paint_tab_end_cleans_failed(w, t, r) ==
    IF r.err # NoError THEN [r EXCEPT !.cleaned = @ + 1]
    ELSE IF r.panic THEN r
    ELSE IF MarginPanics(w, w.dimensions.pixel_height, t.rows * w.cell_size.height)
    THEN [r EXCEPT !.cleaned = @ + 1, !.panic = TRUE]
    ELSE [r EXCEPT !.cleaned = @ + 1,
                   !.ops = @ \o <<Op("clear_margin", 0, t.rows * w.cell_size.height,
                                     w.dimensions.pixel_width,
                                     w.dimensions.pixel_height - t.rows * w.cell_size.height,
                                     t.rows, 0)>>]

\* The end of paint_tab, `r` being the frame state after the dirty lines:
\* mark the lines clean, clear the margin below the last row.  cleaned
\* counts the calls of clean_dirty_lines.  A panic in a line ends the
\* frame before the lines are marked clean; a panic at the height of the
\* bottom margin ends it after that and before the clear.
paint_tab_end(w, t, r) ==
    IF r.err # NoError \/ r.panic THEN r
    ELSE IF MarginPanics(w, w.dimensions.pixel_height, t.rows * w.cell_size.height)
    THEN [r EXCEPT !.cleaned = @ + 1, !.panic = TRUE]
    ELSE [r EXCEPT !.cleaned = @ + 1,
                   !.ops = @ \o <<Op("clear_margin", 0, t.rows * w.cell_size.height,
                                     w.dimensions.pixel_width,
                                     w.dimensions.pixel_height - t.rows * w.cell_size.height,
                                     t.rows, 0)>>]

\* paint_tab: render the dirty lines, then finish the frame.
paint_tab(w, t, rs) ==
    paint_tab_end(w, t, RenderLines(w, t, rs, get_dirty_lines(t), 1))

(***************************************************************************)
(* The state of the program: the mux session with its one window, the      *)
(* tabs' terminals, and the TermWindow.                                    *)
(***************************************************************************)
TabIds == 1..(MaxTabs + MaxSpawnedWindows)

\* A terminal as Domain::spawn / new_window find it: blank, all dirty.
NewTerm(rows, cols) ==
    [rows |-> rows, cols |-> cols, lines |-> [i \in 1..rows |-> BlankLine],
     dirty |-> 0..(rows - 1), highlight |-> "none"]

\* The terminal slot of a tab id that names no tab.
NoTerm == [rows |-> 0, cols |-> 0, lines |-> <<>>, dirty |-> {}, highlight |-> "none"]

\* Tab::resize: the lines kept or padded with blank lines, every line dirty.
Tab_resize(t, size) ==
    [t EXCEPT !.rows = size.rows, !.cols = size.cols,
              !.lines = [i \in 1..size.rows |-> IF i <= t.rows THEN t.lines[i] ELSE BlankLine],
              !.dirty = 0..(size.rows - 1)]

\* Renderable::make_all_lines_dirty and clean_dirty_lines
make_all_lines_dirty(t) == [t EXCEPT !.dirty = 0..(t.rows - 1)]
clean_dirty_lines(t) == [t EXCEPT !.dirty = {}]

\* Mux::get_active_tab_for_window: the tab id, or 0 for None.
ActiveTab(tabs, active) == IF active < Len(tabs) THEN tabs[active + 1] ELSE 0

\* mux Window::remove_by_id: the tab list and active index without the tab.
RemoveAt(tabs, idx) == [i \in 1..(Len(tabs) - 1) |-> IF i <= idx THEN tabs[i] ELSE tabs[i + 1]]

IndexOf(tabs, id) == CHOOSE i \in 0..(Len(tabs) - 1) : tabs[i + 1] = id

Window_remove_by_id(tabs, active, id) ==
    IF \E i \in 1..Len(tabs) : tabs[i] = id
    THEN LET idx == IndexOf(tabs, id)
             rest == RemoveAt(tabs, idx)
         IN  [tabs |-> rest,
              active |-> IF Len(rest) > 0 /\ active = idx /\ idx >= Len(rest)
                         THEN Len(rest) - 1 ELSE active]
    ELSE [tabs |-> tabs, active |-> active]

\* The cell size and decoration rows computed from font metrics
\* (new_window and scaling_changed compute them alike).
CellSizeOf(metrics) ==
    [width |-> RCeil(metrics.cell_width), height |-> RCeil(metrics.cell_height)]

\* isize division truncates towards zero.
IDiv(a, b) == IF a < 0 THEN -((-a) \div b) ELSE a \div b

DecorOf(cell_height, metrics) ==
    LET descender_row == RTrunc(RAdd(RInt(cell_height), metrics.descender)) IN
    [descender          |-> metrics.descender,
     descender_row      |-> descender_row,
     descender_plus_one |-> Min(1 + descender_row, cell_height - 1),
     descender_plus_two |-> Min(2 + descender_row, cell_height - 1),
     strike_row         |-> IDiv(descender_row, 2)]

EmptyCache == [k \in {} |-> NoGlyph]

\* The lookup history of a cache generation that has served nothing yet.
NewGen ==
    [loads |-> [k \in AllKeys |-> 0], stores |-> [k \in AllKeys |-> 0],
     served |-> [k \in AllKeys |-> {}]]

\* recreate_texture_atlas as it would be if it rebuilt the atlas at its old
\* side instead of the side asked for.
recreate_texture_atlas_same_side(a, cache, size) ==
    [atlas |-> Atlas_new(FreshSurface(a, cache), a.side), cache |-> EmptyCache]

\* recreate_texture_atlas: a new atlas of side `size` on a new surface, the
\* glyph cache cleared.
recreate_texture_atlas(a, cache, size) ==
    [atlas |-> Atlas_new(FreshSurface(a, cache), size), cache |-> EmptyCache]

\* The frame record while no paint is running.
IdleFrame ==
    [runs |-> 0, rebuilds |-> 0, cleaned |-> 0, err |-> NoError, panic |-> FALSE,
     tab |-> 0, dirty_before |-> {}, rendered |-> <<>>, ops |-> <<>>]

OutNone == [call |-> "none"]

FontsAt1 == [font_scale |-> RInt(1), dpi_scale |-> RInt(1)]

\* new_window for the first tab of the session.
Init ==
    LET metrics == default_font_metrics(FontsAt1)
        cell    == CellSizeOf(metrics)
    IN  /\ mux_tabs = {1}
        /\ spawn_queue = 0
        /\ win_tabs = <<1>>
        /\ win_active = 0
        /\ term = [id \in TabIds |-> IF id = 1 THEN NewTerm(MaxRows, MaxCols) ELSE NoTerm]
        /\ fonts = FontsAt1
        /\ cell_size = cell
        /\ dimensions = [pixel_width |-> cell.width * MaxCols,
                         pixel_height |-> cell.height * MaxRows, dpi |-> 96]
        /\ decor = DecorOf(cell.height, metrics)
        /\ glyph_cache = EmptyCache
        /\ atlas = Atlas_new(0, InitialAtlasSide)
        /\ pc = "idle"
        /\ frame = IdleFrame
        /\ cache_gen = NewGen
        /\ out = OutNone

\* The TermWindow in a build with (debug) or without (release) overflow
\* checks.
TermWindowBuilt(overflow_checks) ==
    [cell_size |-> cell_size, dimensions |-> dimensions, decor |-> decor,
     fonts |-> fonts, overflow_checks |-> overflow_checks]

TermWindow == TermWindowBuilt(FALSE)

\* The builds that differ in painting tab `tab`: both where the cells of its
\* terminal are wider or higher than the window, else one stands for both.
Builds(tab) ==
    IF \/ term[tab].cols * cell_size.width > dimensions.pixel_width
       \/ term[tab].rows * cell_size.height > dimensions.pixel_height
    THEN BOOLEAN ELSE {FALSE}

(***************************************************************************)
(* The program of the active tab redrawing its screen: the terminal's      *)
(* lines get the content of one of the screens below, and the lines whose  *)
(* content changed become dirty.                                           *)
(***************************************************************************)
Screens == {"blank", "text", "swap", "norast", "noshape"}

\* The line a screen shows at a row.
ScreenLine(screen, line_idx) ==
    CASE screen = "text"    -> IF line_idx = 0 THEN "wide" ELSE "tall"
      [] screen = "swap"    -> IF line_idx = 0 THEN "tall" ELSE "wide"
      [] screen = "norast"  -> IF line_idx = 0 THEN "norast" ELSE "tall"
      [] screen = "noshape" -> IF line_idx = 0 THEN "wide" ELSE "noshape"
      [] screen = "empty"   -> IF line_idx = 0 THEN "empty" ELSE "tall"
      [] OTHER -> BlankLine

terminal_output(screen) ==
    LET tab == ActiveTab(win_tabs, win_active)
        t   == term[tab]
        new == [i \in 1..t.rows |-> ScreenLine(screen, i - 1)]
    IN  /\ pc = "idle"
        /\ tab # 0
        /\ new # t.lines
        /\ term' = [term EXCEPT ![tab].lines = new,
                                ![tab].dirty = @ \cup {i \in 0..(t.rows - 1) :
                                                          new[i + 1] # t.lines[i + 1]}]
        /\ out' = [call |-> "terminal_output"]
        /\ UNCHANGED <<mux_tabs, spawn_queue, win_tabs, win_active, fonts, cell_size, dimensions, decor,
                       glyph_cache, atlas, pc, frame, cache_gen>>

(***************************************************************************)
(* TermWindow::paint.  The callback is entered by the OS (pc = "idle") or  *)
(* by its own recursion after an atlas rebuild (pc = "reenter"); it runs   *)
(* paint_tab and either finishes (pc = "done") or stops at the             *)
(* OutOfTextureSpace branch (pc = "recover").                              *)
(***************************************************************************)
\* The frame state a paint_tab starts from.
FrameStart ==
    [cache |-> glyph_cache, atlas |-> atlas, gen |-> cache_gen,
     glyph |-> NoGlyph, err |-> NoError, panic |-> FALSE, ops |-> <<>>,
     last_cell_idx |-> 0, rendered |-> <<>>, cleaned |-> frame.cleaned]

\* What paint_tab on `tab` leaves behind, `r` being the frame state it ends in.
Painted(tab, r) ==
    /\ glyph_cache' = r.cache
    /\ atlas' = r.atlas
    /\ cache_gen' = r.gen
    /\ term' = IF r.cleaned > frame.cleaned
               THEN [term EXCEPT ![tab] = clean_dirty_lines(@)]
               ELSE term
    /\ frame' = [frame EXCEPT !.runs = @ + 1, !.cleaned = r.cleaned,
                              !.err = r.err, !.panic = r.panic, !.tab = tab,
                              !.dirty_before = term[tab].dirty,
                              !.rendered = r.rendered, !.ops = r.ops]
    /\ pc' = IF r.panic THEN "panicked"
             ELSE IF r.err.kind = "OutOfTextureSpace" THEN "recover" ELSE "done"

\* Tab::get_title: every tab has a title of its own.
Tab_get_title(id) == "tab" \o ToString(id)

\* No call of Window::set_title.
NoTitle == [set |-> FALSE, title |-> ""]

\* update_title as it would be if it showed the active index as it is
\* stored, counted from 0.
update_title_zero_based(tabs, active) ==
    IF Len(tabs) = 0 \/ ActiveTab(tabs, active) = 0
    THEN NoTitle
    ELSE IF Len(tabs) = 1
         THEN [set |-> TRUE, title |-> Tab_get_title(ActiveTab(tabs, active))]
         ELSE [set |-> TRUE,
               title |-> "[" \o ToString(active) \o "/" \o ToString(Len(tabs)) \o "] "
                             \o Tab_get_title(ActiveTab(tabs, active))]

\* update_title: the title handed to Window::set_title, if any.
update_title(tabs, active) ==
    IF Len(tabs) = 0 \/ ActiveTab(tabs, active) = 0
    THEN NoTitle
    ELSE IF Len(tabs) = 1
         THEN [set |-> TRUE, title |-> Tab_get_title(ActiveTab(tabs, active))]
         ELSE [set |-> TRUE,
               title |-> "[" \o ToString(active + 1) \o "/" \o ToString(Len(tabs)) \o "] "
                             \o Tab_get_title(ActiveTab(tabs, active))]

\* paint: without an active tab the window is cleared; otherwise paint_tab
\* runs and, unless paint goes on to rebuild the atlas, the title is updated.
\* A panic in paint_tab ends the callback and the program (pc = "panicked").
paint ==
    LET tab == ActiveTab(win_tabs, win_active) IN
    /\ pc \in {"idle", "reenter"}
    /\ IF tab = 0
       THEN /\ frame' = [frame EXCEPT !.ops = <<Op("clear", 0, 0, 0, 0, 0, 0)>>]
            /\ pc' = "done"
            /\ UNCHANGED <<term, glyph_cache, atlas, cache_gen>>
       ELSE \E overflow_checks \in Builds(tab) :
                Painted(tab, paint_tab(TermWindowBuilt(overflow_checks), term[tab],
                                       FrameStart))
    /\ out' = [call |-> "paint",
               title |-> IF tab = 0 \/ pc' \in {"recover", "panicked"}
                         THEN NoTitle
                         ELSE update_title(win_tabs, win_active)]
    /\ UNCHANGED <<mux_tabs, spawn_queue, win_tabs, win_active, fonts, cell_size, dimensions, decor>>

\* The OutOfTextureSpace branch of paint: rebuild the atlas at the size the
\* error asks for, mark the tab's lines dirty, paint again.
paint_recover ==
    LET re == recreate_texture_atlas(atlas, glyph_cache, frame.err.size) IN
    /\ pc = "recover"
    /\ atlas' = re.atlas
    /\ glyph_cache' = re.cache
    /\ cache_gen' = NewGen
    /\ term' = [term EXCEPT ![frame.tab] = make_all_lines_dirty(@)]
    /\ frame' = [frame EXCEPT !.rebuilds = @ + 1]
    /\ pc' = "reenter"
    /\ UNCHANGED <<mux_tabs, spawn_queue, win_tabs, win_active, fonts, cell_size, dimensions, decor, out>>

\* paint returns to the event loop; its PaintContext is gone.
paint_return ==
    /\ pc = "done"
    /\ pc' = "idle"
    /\ frame' = IdleFrame
    /\ UNCHANGED <<mux_tabs, spawn_queue, win_tabs, win_active, term, fonts, cell_size, dimensions,
                   decor, glyph_cache, atlas, cache_gen, out>>

(***************************************************************************)
(* The callbacks that change the window: they are functions of the         *)
(* window state `st` (the variables below as one record).                  *)
(***************************************************************************)
\* Every variable but the record of the last call.
windowState == <<mux_tabs, spawn_queue, win_tabs, win_active, term, fonts, cell_size, dimensions,
                 decor, glyph_cache, atlas, pc, frame, cache_gen>>

State ==
    [mux_tabs |-> mux_tabs, spawn_queue |-> spawn_queue,
     win_tabs |-> win_tabs, win_active |-> win_active, term |-> term, fonts |-> fonts, cell_size |-> cell_size,
     dimensions |-> dimensions, decor |-> decor, glyph_cache |-> glyph_cache,
     atlas |-> atlas, cache_gen |-> cache_gen]

Becomes(st) ==
    /\ mux_tabs' = st.mux_tabs
    /\ spawn_queue' = st.spawn_queue
    /\ win_tabs' = st.win_tabs
    /\ win_active' = st.win_active
    /\ term' = st.term
    /\ fonts' = st.fonts
    /\ cell_size' = st.cell_size
    /\ dimensions' = st.dimensions
    /\ decor' = st.decor
    /\ glyph_cache' = st.glyph_cache
    /\ atlas' = st.atlas
    /\ cache_gen' = st.cache_gen

\* The PtySize scaling_changed hands to Tab::resize.
ScaledPtySize(dims, cell) ==
    [rows |-> AsU16(dims.pixel_height) \div AsU16(cell.height),
     cols |-> AsU16(dims.pixel_width) \div AsU16(cell.width),
     pixel_height |-> AsU16(dims.pixel_height),
     pixel_width |-> AsU16(dims.pixel_width)]

\* `for tab in window.iter() { tab.resize(size).ok(); }`
ResizeTabs(tm, tabs, size) ==
    [id \in TabIds |-> IF \E i \in 1..Len(tabs) : tabs[i] = id
                       THEN Tab_resize(tm[id], size) ELSE tm[id]]

\* Whether scaling_changed takes its rescale branch.
ScalingDiffers(st, dims, font_scale) ==
    dims.dpi # st.dimensions.dpi \/ font_scale # st.fonts.font_scale

\* The rescale branch as it would be if it rebuilt the atlas at the size of
\* a new window instead of the current size.
Rescaled_initial_side(st, dims, font_scale) ==
    LET f2      == [font_scale |-> font_scale, dpi_scale |-> Rat(dims.dpi, 96)]
        metrics == default_font_metrics(f2)
        cell    == CellSizeOf(metrics)
        re      == recreate_texture_atlas(st.atlas, st.glyph_cache, InitialAtlasSide)
    IN  [st EXCEPT !.fonts = f2, !.cell_size = cell,
                   !.decor = DecorOf(cell.height, metrics),
                   !.atlas = re.atlas, !.glyph_cache = re.cache, !.cache_gen = NewGen]

\* The rescale branch of scaling_changed: new font scaling, cell size,
\* decoration rows, and an atlas of the old side with an empty cache.
Rescaled(st, dims, font_scale) ==
    LET f2      == [font_scale |-> font_scale, dpi_scale |-> Rat(dims.dpi, 96)]
        metrics == default_font_metrics(f2)
        cell    == CellSizeOf(metrics)
        re      == recreate_texture_atlas(st.atlas, st.glyph_cache, st.atlas.side)
    IN  [st EXCEPT !.fonts = f2, !.cell_size = cell,
                   !.decor = DecorOf(cell.height, metrics),
                   !.atlas = re.atlas, !.glyph_cache = re.cache, !.cache_gen = NewGen]

\* scaling_changed as it would be if it returned early when neither the
\* dpi nor the font scale changes.
scaling_changed_early_return(st, dims, font_scale) ==
    IF ~ScalingDiffers(st, dims, font_scale)
    THEN st
    ELSE LET s1 == Rescaled(st, dims, font_scale)
         IN  [s1 EXCEPT !.dimensions = dims,
                        !.term = ResizeTabs(s1.term, s1.win_tabs,
                                            ScaledPtySize(dims, s1.cell_size))]

scaling_changed(st, dims, font_scale) ==
    LET s1 == IF ScalingDiffers(st, dims, font_scale)
              THEN Rescaled(st, dims, font_scale) ELSE st
    IN  [s1 EXCEPT !.dimensions = dims,
                   !.term = ResizeTabs(s1.term, s1.win_tabs, ScaledPtySize(dims, s1.cell_size))]

\* 2^n modulo m.
RECURSIVE Pow2Mod(_, _)
Pow2Mod(n, m) == IF n = 0 THEN 1 % m ELSE (2 * Pow2Mod(n - 1, m)) % m

\* `x as usize % m` for an isize x: a negative x wraps to 2^64 + x.
AsUsizeMod(x, m) == IF x >= 0 THEN x % m ELSE (Pow2Mod(64, m) + (x % m)) % m

\* activate_tab and activate_tab_relative
activate_tab(st, tab_idx) ==
    IF tab_idx < Len(st.win_tabs) THEN [st EXCEPT !.win_active = tab_idx] ELSE st

activate_tab_relative(st, delta) ==
    LET max == Len(st.win_tabs)
        t0  == st.win_active + delta
        tab == IF t0 < 0 THEN max + t0 ELSE t0
    IN  IF max > 0
        THEN [ok |-> TRUE, st |-> activate_tab(st, AsUsizeMod(tab, max))]
        ELSE [ok |-> FALSE, st |-> st]

\* The domains a SpawnTab assignment can name; only the last does not resolve.
SpawnDomains == {"DefaultDomain", "CurrentTabDomain", "DomainName(missing)"}

\* Domain::spawn gives the new tab an id no tab of the session has.
FreeTabId(st) ==
    CHOOSE id \in TabIds : id \notin st.mux_tabs /\ \A i \in 1..Len(st.win_tabs) : st.win_tabs[i] # id

\* spawn_tab as it would be if it spawned the tab before resolving the domain.
spawn_tab_before_resolving(st, domain) ==
    LET rows == (st.dimensions.pixel_height + 1) \div st.cell_size.height
        cols == (st.dimensions.pixel_width + 1) \div st.cell_size.width
        id   == FreeTabId(st)
        resolved == CASE domain = "DefaultDomain" -> TRUE
                      [] domain = "CurrentTabDomain" ->
                             ActiveTab(st.win_tabs, st.win_active) # 0
                      [] OTHER -> FALSE
        spawned == [st EXCEPT !.mux_tabs = @ \cup {id},
                              !.win_tabs = Append(@, id),
                              !.term[id] = NewTerm(AsU16(rows), AsU16(cols))]
    IN  IF resolved
        THEN [ok |-> TRUE, st |-> activate_tab(spawned, Len(spawned.win_tabs) - 1)]
        ELSE [ok |-> FALSE, st |-> spawned]

spawn_tab(st, domain) ==
    LET rows == (st.dimensions.pixel_height + 1) \div st.cell_size.height
        cols == (st.dimensions.pixel_width + 1) \div st.cell_size.width
        id   == FreeTabId(st)
        resolved == CASE domain = "DefaultDomain" -> TRUE
                      [] domain = "CurrentTabDomain" ->
                             ActiveTab(st.win_tabs, st.win_active) # 0
                      [] OTHER -> FALSE
        spawned == [st EXCEPT !.mux_tabs = @ \cup {id},
                              !.win_tabs = Append(@, id),
                              !.term[id] = NewTerm(AsU16(rows), AsU16(cols))]
    IN  IF resolved
        THEN [ok |-> TRUE, st |-> activate_tab(spawned, Len(spawned.win_tabs) - 1)]
        ELSE [ok |-> FALSE, st |-> st]

close_current_tab(st) ==
    LET tab == ActiveTab(st.win_tabs, st.win_active)
        rm  == Window_remove_by_id(st.win_tabs, st.win_active, tab)
        s1  == [st EXCEPT !.mux_tabs = @ \ {tab}, !.win_tabs = rm.tabs,
                          !.win_active = rm.active, !.term[tab] = NoTerm]
    IN  IF tab = 0 THEN st ELSE activate_tab_relative(s1, 0).st

decrease_font_size(st) ==
    scaling_changed(st, st.dimensions, RMul(st.fonts.font_scale, <<9, 10>>))
increase_font_size(st) ==
    scaling_changed(st, st.dimensions, RMul(st.fonts.font_scale, <<11, 10>>))
reset_font_size(st) == scaling_changed(st, st.dimensions, RInt(1))

\* can_close as it would be if it asked `win.is_empty()` before removing the tab.
can_close_result_before_removal(st) ==
    LET tab == ActiveTab(st.win_tabs, st.win_active)
        rm  == Window_remove_by_id(st.win_tabs, st.win_active, tab)
    IN  IF tab = 0
        THEN [ret |-> TRUE, st |-> st]
        ELSE [ret |-> Len(st.win_tabs) = 0,
              st  |-> [st EXCEPT !.mux_tabs = @ \ {tab}, !.win_tabs = rm.tabs,
                                 !.win_active = rm.active, !.term[tab] = NoTerm]]

\* can_close: close the active tab; the window may close when no tab is left.
can_close_result(st) ==
    LET tab == ActiveTab(st.win_tabs, st.win_active)
        rm  == Window_remove_by_id(st.win_tabs, st.win_active, tab)
    IN  IF tab = 0
        THEN [ret |-> TRUE, st |-> st]
        ELSE [ret |-> Len(rm.tabs) = 0,
              st  |-> [st EXCEPT !.mux_tabs = @ \ {tab}, !.win_tabs = rm.tabs,
                                 !.win_active = rm.active, !.term[tab] = NoTerm]]

(***************************************************************************)
(* The callbacks as actions.  Each runs on the GUI thread, between paints. *)
(***************************************************************************)
\* The dimensions a resize event reports: the window as created or one row
\* shorter at 96 dpi, and the same with three pixels more at 192 dpi.
ResizeDimensions ==
    {[pixel_width |-> 8 * MaxCols * d + 3 * (d - 1),
      pixel_height |-> 16 * r * d + 3 * (d - 1),
      dpi |-> 96 * d] : r \in (MaxRows - 1)..MaxRows, d \in 1..2}

\* Dimensions at 96 dpi that are up to two pixels short of MaxCols x MaxRows
\* cells of 8 x 16 pixels.
ShortDimensions ==
    {[pixel_width |-> 8 * MaxCols - a, pixel_height |-> 16 * MaxRows - b, dpi |-> 96] :
        a \in 0..2, b \in 0..2}

\* WindowCallbacks::resize
resize(dims) ==
    /\ pc = "idle"
    /\ Becomes(scaling_changed(State, dims, fonts.font_scale))
    /\ out' = [call |-> "resize", dims |-> dims,
               rescaled |-> ScalingDiffers(State, dims, fonts.font_scale)]
    /\ UNCHANGED <<pc, frame>>

\* WindowCallbacks::can_close; the window is torn down once it returns true.
can_close ==
    LET r == can_close_result(State) IN
    /\ pc = "idle"
    /\ Becomes(r.st)
    /\ out' = [call |-> "can_close", ret |-> r.ret,
               tab |-> ActiveTab(win_tabs, win_active)]
    /\ pc' = IF r.ret THEN "closed" ELSE "idle"
    /\ UNCHANGED frame

\* KeyMap::lookup: the assignment bound to a key with modifiers, if any.
\* A KeyAssignment is its variant (name), the domain or text it carries
\* (arg) and the tab index or delta it carries (n).
NoAssignment == [name |-> "none", arg |-> "none", n |-> 0]

KeyMap_lookup(code, mods) ==
    CASE code = "t" /\ mods = "SUPER" -> [name |-> "SpawnTab", arg |-> "CurrentTabDomain", n |-> 0]
      [] code = "y" /\ mods = "SUPER" -> [name |-> "SpawnTab", arg |-> "DomainName(missing)", n |-> 0]
      [] code = "w" /\ mods = "SUPER" -> [name |-> "CloseCurrentTab", arg |-> "none", n |-> 0]
      [] code = "n" /\ mods = "SUPER" -> [name |-> "SpawnWindow", arg |-> "none", n |-> 0]
      [] code = "v" /\ mods = "SUPER" -> [name |-> "Paste", arg |-> "none", n |-> 0]
      [] code = "1" /\ mods = "SUPER" -> [name |-> "ActivateTab", arg |-> "none", n |-> 0]
      [] code = "2" /\ mods = "SUPER" -> [name |-> "ActivateTab", arg |-> "none", n |-> 1]
      [] code = "[" /\ mods = "SUPER" -> [name |-> "ActivateTabRelative", arg |-> "none", n |-> -1]
      [] code = "]" /\ mods = "SUPER" -> [name |-> "ActivateTabRelative", arg |-> "none", n |-> 1]
      [] code = "s" /\ mods = "SUPER" -> [name |-> "SendString", arg |-> "sent", n |-> 0]
      [] code = "-" /\ mods = "CTRL"  -> [name |-> "DecreaseFontSize", arg |-> "none", n |-> 0]
      [] code = "=" /\ mods = "CTRL"  -> [name |-> "IncreaseFontSize", arg |-> "none", n |-> 0]
      [] code = "0" /\ mods = "CTRL"  -> [name |-> "ResetFontSize", arg |-> "none", n |-> 0]
      [] OTHER -> NoAssignment

\* spawn_new_window: queue a future on the GUI executor.
spawn_new_window(st) == [st EXCEPT !.spawn_queue = @ + 1]

\* Clipboard::get_contents
ClipboardContents == "clip"

\* What perform_key_assignment returns (ok: without error), the window
\* state it leaves and the text it handed to the tab.
ActionResult(ok, st, written) == [ok |-> ok, st |-> st, written |-> written]

\* perform_key_assignment; tab_ok tells whether the calls it makes on the
\* tab, its writer and the clipboard succeed.
perform_key_assignment(st, assignment, tab_ok) ==
    CASE assignment.name = "SpawnTab" -> ActionResult(spawn_tab(st, assignment.arg).ok, spawn_tab(st, assignment.arg).st, "")
      [] assignment.name = "SpawnWindow" -> ActionResult(TRUE, spawn_new_window(st), "")
      [] assignment.name = "Paste" ->
             ActionResult(tab_ok, st, IF tab_ok THEN ClipboardContents ELSE "")
      [] assignment.name = "ActivateTabRelative" ->
             ActionResult(activate_tab_relative(st, assignment.n).ok,
                          activate_tab_relative(st, assignment.n).st, "")
      [] assignment.name = "ActivateTab" ->
             ActionResult(TRUE, activate_tab(st, assignment.n), "")
      [] assignment.name \in {"SendString", "SendByte"} ->
             ActionResult(tab_ok, st, IF tab_ok THEN assignment.arg ELSE "")
      [] assignment.name = "CloseCurrentTab" -> ActionResult(TRUE, close_current_tab(st), "")
      [] assignment.name = "DecreaseFontSize" -> ActionResult(TRUE, decrease_font_size(st), "")
      [] assignment.name = "IncreaseFontSize" -> ActionResult(TRUE, increase_font_size(st), "")
      [] assignment.name = "ResetFontSize" -> ActionResult(TRUE, reset_font_size(st), "")
      [] OTHER -> ActionResult(TRUE, st, "")

\* The keys that change the font size, and all keys of the model.
FontKeys ==
    {[key_is_down |-> TRUE, kind |-> "Char", code |-> c, mods |-> "CTRL"] : c \in {"-", "=", "0"}}

TabKeys ==
    {[key_is_down |-> TRUE, kind |-> "Char", code |-> c, mods |-> "SUPER"] : c \in {"t", "y", "w"}}

\* The keys that switch tabs, spawn a window, paste and send a string.
ActionKeys ==
    {[key_is_down |-> TRUE, kind |-> "Char", code |-> c, mods |-> "SUPER"] :
        c \in {"1", "2", "[", "]", "n", "v", "s"}}

\* The keys that make the font smaller and reset it.
ShrinkKeys == {k \in FontKeys : k.code # "="}

\* Key events beside the bound character keys: a character without a
\* binding, composed (IME) text that spells a bound character, a key code
\* key_event does not map, and the key-up of each of them.
PlainKeys ==
    {[key_is_down |-> TRUE, kind |-> "Char", code |-> "a", mods |-> "NONE"],
     [key_is_down |-> TRUE, kind |-> "Composed", code |-> "t", mods |-> "SUPER"],
     [key_is_down |-> TRUE, kind |-> "Unmapped", code |-> "t", mods |-> "SUPER"]}

KeyUps == {[k EXCEPT !.key_is_down = FALSE] : k \in PlainKeys \cup FontKeys \cup TabKeys}

\* The window KeyCodes key_event translates to a termwiz KeyCode.
MappedKinds == {"Char", "Function", "LeftArrow", "RightArrow", "UpArrow", "DownArrow",
                "Home", "End", "PageUp", "PageDown"}

\* The model stops stepping the font size MaxFontSteps away from 1.0,
\* spawning tabs at MaxTabs and spawning windows at MaxSpawnedWindows.
WithinBounds(key) ==
    LET a == KeyMap_lookup(key.code, key.mods) IN
    key.key_is_down /\ key.kind \in MappedKinds =>
        /\ a.name \in {"DecreaseFontSize", "IncreaseFontSize"}
              => fonts.font_scale[2] < 10 ^ MaxFontSteps
        /\ a.name = "SpawnTab" => Len(win_tabs) < MaxTabs
        /\ a.name = "SpawnWindow" =>
              spawn_queue + Cardinality(mux_tabs \ {win_tabs[i] : i \in 1..Len(win_tabs)})
                  < MaxSpawnedWindows

\* What key_event returns and does: ret is its result, st the window state
\* it leaves, action the key assignment it performed (action_ok: without
\* error), forwarded whether it called Tab::key_down, written the text that
\* reached the tab through its writer or a paste (none when the call fails).
KeyResult(ret, st, action, action_ok, forwarded, written) ==
    [ret |-> ret, st |-> st, action |-> action, action_ok |-> action_ok,
     forwarded |-> forwarded, written |-> written]

\* `self.perform_key_assignment(&tab, &assignment).ok(); return true`
key_event_assigned(assignment, done) ==
    KeyResult(TRUE, done.st, assignment, done.ok, FALSE, done.written)

\* key_event as it would be if a key without binding were dropped instead
\* of being handed to Tab::key_down.
key_event_down_drops_unbound(st, key, assignment, tab_ok) ==
    IF key.kind = "Composed"
    THEN KeyResult(TRUE, st, NoAssignment, TRUE, FALSE, IF tab_ok THEN key.code ELSE "")
    ELSE IF key.kind \notin MappedKinds
    THEN KeyResult(FALSE, st, NoAssignment, TRUE, FALSE, "")
    ELSE IF assignment # NoAssignment
    THEN key_event_assigned(assignment, perform_key_assignment(st, assignment, tab_ok))
    ELSE KeyResult(FALSE, st, NoAssignment, TRUE, FALSE, "")

\* key_event as it would be if composed text went through the key table
\* like a character.
key_event_down_composed_lookup(st, key, assignment, tab_ok) ==
    IF key.kind \notin MappedKinds \cup {"Composed"}
    THEN KeyResult(FALSE, st, NoAssignment, TRUE, FALSE, "")
    ELSE IF assignment # NoAssignment
    THEN key_event_assigned(assignment, perform_key_assignment(st, assignment, tab_ok))
    ELSE KeyResult(key.kind = "Composed" \/ tab_ok, st, NoAssignment, TRUE,
                   key.kind # "Composed",
                   IF key.kind = "Composed" /\ tab_ok THEN key.code ELSE "")

\* key_event for a key-down with an active tab; `assignment` is what
\* self.keys.lookup finds for the key's code and modifiers, tab_ok whether
\* the call the event makes on the tab succeeds: Tab::key_down for a key
\* without binding (`else if tab.key_down(key, modifiers).is_ok()
\* { return true; }`, else false), the writer's write_all for composed
\* text, whose result is dropped (`.ok()`): the event is handled, the text
\* reaches the tab only when the write succeeds.
key_event_down(st, key, assignment, tab_ok) ==
    IF key.kind = "Composed"
    THEN KeyResult(TRUE, st, NoAssignment, TRUE, FALSE, IF tab_ok THEN key.code ELSE "")
    ELSE IF key.kind \notin MappedKinds
    THEN KeyResult(FALSE, st, NoAssignment, TRUE, FALSE, "")
    ELSE IF assignment # NoAssignment
    THEN key_event_assigned(assignment, perform_key_assignment(st, assignment, tab_ok))
    ELSE KeyResult(tab_ok, st, NoAssignment, TRUE, TRUE, "")

\* key_event as it would be without `if !key.key_is_down { return false; }`.
key_event_result_no_key_up_return(st, key, tab_ok) ==
    IF ActiveTab(st.win_tabs, st.win_active) = 0
    THEN KeyResult(FALSE, st, NoAssignment, TRUE, FALSE, "")
    ELSE key_event_down(st, key, KeyMap_lookup(key.code, key.mods), tab_ok)

key_event_result(st, key, tab_ok) ==
    IF ~key.key_is_down
    THEN KeyResult(FALSE, st, NoAssignment, TRUE, FALSE, "")
    ELSE IF ActiveTab(st.win_tabs, st.win_active) = 0
    THEN KeyResult(FALSE, st, NoAssignment, TRUE, FALSE, "")
    ELSE key_event_down(st, key, KeyMap_lookup(key.code, key.mods), tab_ok)

\* The step of key_event, `r` being its result.
KeyEventDone(key, tab_ok, r) ==
    /\ Becomes(r.st)
    /\ out' = [call |-> "key_event", ret |-> r.ret, key |-> key, tab_ok |-> tab_ok,
               action |-> r.action, action_ok |-> r.action_ok,
               forwarded |-> r.forwarded, written |-> r.written]

\* The outcomes of the call a key event makes on the tab, its writer or the
\* clipboard: success and failure where the event makes such a call (the
\* write of composed text, Tab::key_down for a key without binding, a paste
\* or a sent string), else one stands for both.
TabOutcomes(st, key) ==
    IF /\ key.key_is_down
       /\ ActiveTab(st.win_tabs, st.win_active) # 0
       /\ \/ key.kind = "Composed"
          \/ /\ key.kind \in MappedKinds
             /\ KeyMap_lookup(key.code, key.mods).name
                    \in {"none", "Paste", "SendString", "SendByte"}
    THEN BOOLEAN ELSE {TRUE}

\* WindowCallbacks::key_event
key_event(key) ==
    /\ pc = "idle"
    /\ WithinBounds(key)
    /\ \E tab_ok \in TabOutcomes(State, key) :
          KeyEventDone(key, tab_ok, key_event_result(State, key, tab_ok))
    /\ UNCHANGED <<pc, frame>>

\* The GUI executor runs a future queued by spawn_new_window: the session
\* gets a new window, the default domain spawns a tab into it and the
\* front end opens a TermWindow of its own for it.  The tab is a tab of the
\* session, not of this window; its terminal has the rows and columns of
\* PtySize::default(), 24 by 80.
spawn_new_window_future ==
    /\ pc = "idle"
    /\ spawn_queue > 0
    /\ spawn_queue' = spawn_queue - 1
    /\ mux_tabs' = mux_tabs \cup {FreeTabId(State)}
    /\ term' = [term EXCEPT ![FreeTabId(State)] = NewTerm(24, 80)]
    /\ out' = [call |-> "spawn_new_window", tab |-> FreeTabId(State)]
    /\ UNCHANGED <<win_tabs, win_active, fonts, cell_size, dimensions, decor,
                   glyph_cache, atlas, pc, frame, cache_gen>>

\* The mouse events of the model: every kind, every set of held buttons,
\* at two pixel positions.
MouseButtons == {"LEFT", "RIGHT", "MIDDLE"}

MouseKinds ==
    {[kind |-> "Move", arg |-> 0]}
    \cup {[kind |-> k, arg |-> b] : k \in {"Press", "Release", "DoubleClick"},
                                    b \in {"Left", "Middle", "Right"}}
    \cup {[kind |-> k, arg |-> a] : k \in {"VertWheel", "HorzWheel"}, a \in {-2, -1, 1}}

MouseEvents ==
    {[kind |-> k, mouse_buttons |-> held, x |-> p[1], y |-> p[2]] :
        k \in MouseKinds, held \in SUBSET MouseButtons, p \in {<<0, 0>>, <<9, 17>>}}

\* The button of the term::MouseEvent that mouse_event builds.
MouseButtonOf(event) ==
    CASE event.kind.kind \in {"Press", "Release", "DoubleClick"} ->
             [button |-> event.kind.arg, amount |-> 0]
      [] event.kind.kind = "Move" ->
             [button |-> IF event.mouse_buttons = {"LEFT"} THEN "Left"
                         ELSE IF event.mouse_buttons = {"RIGHT"} THEN "Right"
                         ELSE IF event.mouse_buttons = {"MIDDLE"} THEN "Middle"
                         ELSE "None",
              amount |-> 0]
      [] event.kind.kind = "VertWheel" ->
             IF event.kind.arg > 0
             THEN [button |-> "WheelUp", amount |-> event.kind.arg]
             ELSE [button |-> "WheelDown", amount |-> -event.kind.arg]
      [] OTHER -> [button |-> "None", amount |-> 0]

\* The kind of the term::MouseEvent.
MouseKindOf(event) ==
    CASE event.kind.kind = "Move" -> "Move"
      [] event.kind.kind = "Release" -> "Release"
      [] OTHER -> "Press"

\* WindowCallbacks::mouse_event: the event handed to Tab::mouse_event and
\* whether a repaint is requested.
mouse_event(event) ==
    LET tab == ActiveTab(win_tabs, win_active) IN
    /\ pc = "idle"
    /\ out' = IF tab = 0
              THEN [call |-> "mouse_event", event |-> event, delivered |-> FALSE]
              ELSE [call |-> "mouse_event", event |-> event, delivered |-> TRUE,
                    kind |-> MouseKindOf(event),
                    button |-> MouseButtonOf(event).button,
                    amount |-> MouseButtonOf(event).amount,
                    x |-> event.x \div cell_size.width,
                    y |-> event.y \div cell_size.height,
                    invalidate |-> event.kind.kind # "Move"]
    /\ UNCHANGED <<mux_tabs, spawn_queue, win_tabs, win_active, term, fonts, cell_size, dimensions,
                   decor, glyph_cache, atlas, pc, frame, cache_gen>>

(***************************************************************************)
(* The computations of the window on their own: the fit scale of           *)
(* load_glyph, the foreground color of render_screen_line and the          *)
(* decoration rows of new_window and scaling_changed, applied to glyphs,   *)
(* cell attributes and font metrics beyond those of the fonts above.       *)
(***************************************************************************)
\* The metrics of the primary font at font scale 1.0 and 0.9.
ScaleMetrics ==
    {default_font_metrics([font_scale |-> s, dpi_scale |-> RInt(1)]) : s \in {RInt(1), Rat(9, 10)}}

\* Shaped glyphs of one to MaxCols cells whose advance is a multiple of half
\* a pixel up to MaxAdvance pixels.
ScaleInfos ==
    {[x_advance |-> Rat(n, 2), num_cells |-> c] : n \in 1..(2 * MaxAdvance), c \in 1..MaxCols}

\* Rasterized glyphs: a whitespace glyph, glyphs up to the cell height, and
\* taller ones.
ScaleGlyphs == {[width |-> 8, height |-> h] : h \in {0, 14, 16, 17, 32}}

\* `let scale = ...` of load_glyph
load_glyph_scale(info, glyph, metrics) ==
    /\ pc = "idle" /\ out = OutNone
    /\ out' = [call |-> "load_glyph_scale", info |-> info, glyph |-> glyph,
               cell_width |-> metrics.cell_width, cell_height |-> metrics.cell_height,
               scale |-> FitScale(info, glyph, metrics.cell_width, metrics.cell_height)]
    /\ UNCHANGED windowState

\* GlyphInfos with offsets and rasterized bitmaps with bearings: bitmaps
\* without width or height, and bitmaps 8 wide that fit the cell or not.
LoadInfos ==
    {[x_advance |-> i.x_advance, num_cells |-> i.num_cells,
      x_offset |-> RInt(1), y_offset |-> RInt(2)] : i \in ScaleInfos}

LoadBitmaps ==
    {[ok |-> TRUE, width |-> w, height |-> h, bearing_x |-> RInt(1), bearing_y |-> RInt(h)] :
        w \in {0, 8}, h \in {0, 14, 17}}

\* load_glyph of a rasterized bitmap into the atlas of the window.
load_glyph_bitmap(info, glyph, metrics) ==
    /\ pc = "idle" /\ out = OutNone
    /\ out' = [call |-> "load_glyph", info |-> info, bitmap |-> glyph, atlas |-> atlas,
               scale |-> FitScale(info, glyph, metrics.cell_width, metrics.cell_height),
               result |-> load_glyph_rasterized(atlas, info, metrics, glyph)]
    /\ UNCHANGED windowState

\* ColorPalette::resolve_fg: every palette index has a color of its own.
resolve_fg(foreground) ==
    CASE foreground.kind = "Default"      -> [color |-> "foreground", idx |-> 0]
      [] foreground.kind = "PaletteIndex" -> [color |-> "indexed", idx |-> foreground.idx]
      [] OTHER                            -> [color |-> "rgb", idx |-> foreground.idx]

\* The foreground with every bold palette index lifted by 8 (as u8).
fg_color_brightens_all(foreground, intensity, style_foreground) ==
    IF foreground.kind = "Default"
    THEN IF style_foreground # "None"
         THEN [color |-> "style", idx |-> 0]
         ELSE resolve_fg(foreground)
    ELSE IF foreground.kind = "PaletteIndex"
         THEN resolve_fg([kind |-> "PaletteIndex",
                          idx |-> IF intensity = "Bold"
                                  THEN (foreground.idx + 8) % 256
                                  ELSE foreground.idx])
         ELSE resolve_fg(foreground)

\* `let fg_color = match attrs.foreground { .. }` of render_screen_line
fg_color(foreground, intensity, style_foreground) ==
    IF foreground.kind = "Default"
    THEN IF style_foreground # "None"
         THEN [color |-> "style", idx |-> 0]
         ELSE resolve_fg(foreground)
    ELSE IF foreground.kind = "PaletteIndex" /\ foreground.idx < 8
         THEN resolve_fg([kind |-> "PaletteIndex",
                          idx |-> IF intensity = "Bold"
                                  THEN foreground.idx + 8
                                  ELSE foreground.idx])
         ELSE resolve_fg(foreground)

\* ColorAttribute: the default, the u8 palette indices, and a true color.
ColorAttributes ==
    {[kind |-> "Default", idx |-> 0], [kind |-> "TrueColor", idx |-> 3]}
        \cup {[kind |-> "PaletteIndex", idx |-> i] : i \in 0..255}

Intensities == {"Normal", "Bold", "Half"}

\* The foreground of a cluster as render_screen_line resolves it.
cluster_fg_color(foreground, intensity, style_foreground) ==
    /\ pc = "idle" /\ out = OutNone
    /\ out' = [call |-> "fg_color", foreground |-> foreground, intensity |-> intensity,
               style_foreground |-> style_foreground,
               color |-> fg_color(foreground, intensity, style_foreground)]
    /\ UNCHANGED windowState

\* `if attrs.reverse() { swap(fg, bg) }` of render_screen_line: the colors
\* of a cluster.
cluster_colors(fg, bg, reverse) ==
    IF reverse
    THEN [fg |-> bg, bg |-> fg]
    ELSE [fg |-> fg, bg |-> bg]

\* compute_cell_fg_bg as it would be if the selection were looked at
\* before the cursor.
compute_cell_fg_bg_selection_first(line_idx, cell_idx, cursor, selection, colors) ==
    LET selected  == selection.start <= cell_idx /\ cell_idx < selection.end
        is_cursor == line_idx = cursor.y /\ cursor.x = cell_idx
    IN  IF selected THEN [fg |-> "selection_fg", bg |-> "selection_bg"]
        ELSE IF is_cursor THEN [fg |-> "cursor_fg", bg |-> "cursor_bg"]
        ELSE colors

\* compute_cell_fg_bg: the colors of a cell, `colors` being those of its
\* cluster and the palette's colors being named by their fields.
compute_cell_fg_bg(line_idx, cell_idx, cursor, selection, colors) ==
    LET selected  == selection.start <= cell_idx /\ cell_idx < selection.end
        is_cursor == line_idx = cursor.y /\ cursor.x = cell_idx
    IN  IF ~selected /\ ~is_cursor THEN colors
        ELSE IF is_cursor THEN [fg |-> "cursor_fg", bg |-> "cursor_bg"]
        ELSE [fg |-> "selection_fg", bg |-> "selection_bg"]

\* Cursor positions and selection ranges (start..end, end excluded) on the
\* cells of a MaxRows x MaxCols terminal.
CursorPositions == {[x |-> x, y |-> y] : x \in 0..(MaxCols - 1), y \in 0..(MaxRows - 1)}
Selections == {[start |-> a, end |-> b] : a \in 0..MaxCols, b \in 0..MaxCols}

\* The colors render_screen_line gives the cell of a glyph.
cell_colors(reverse, line_idx, cell_idx, cursor, selection) ==
    /\ pc = "idle" /\ out = OutNone
    /\ out' = [call |-> "compute_cell_fg_bg", reverse |-> reverse, line_idx |-> line_idx,
               cell_idx |-> cell_idx, cursor |-> cursor, selection |-> selection,
               colors |-> compute_cell_fg_bg(line_idx, cell_idx, cursor, selection,
                                             cluster_colors("fg", "bg", reverse))]
    /\ UNCHANGED windowState

\* The window with `n` tabs of which the one at index `active` is active.
WindowOfTabs(n, active) ==
    [State EXCEPT !.win_tabs = [i \in 1..n |-> i], !.win_active = active]

\* activate_tab_relative(delta) on a window of `n` tabs.
tab_relative(n, active, delta) ==
    LET r == activate_tab_relative(WindowOfTabs(n, active), delta) IN
    /\ pc = "idle" /\ out = OutNone
    /\ out' = [call |-> "activate_tab_relative", tabs |-> n, active |-> active,
               delta |-> delta, ok |-> r.ok, new_active |-> r.st.win_active,
               changed |-> r.st # WindowOfTabs(n, r.st.win_active)]
    /\ UNCHANGED windowState

\* Font metrics of a 8 x 16 cell at font scale 1.0 and 0.9 whose descender
\* is a multiple of half a pixel between -MaxDescender and MaxDescender.
DecorMetrics ==
    {[m EXCEPT !.descender = Rat(n, 2)] :
        m \in ScaleMetrics, n \in (0 - 2 * MaxDescender)..(2 * MaxDescender)}

\* The decoration rows new_window and scaling_changed derive from metrics.
decoration_rows(metrics) ==
    /\ pc = "idle" /\ out = OutNone
    /\ out' = [call |-> "decoration_rows", metrics |-> metrics,
               cell_height |-> CellSizeOf(metrics).height,
               decor |-> DecorOf(CellSizeOf(metrics).height, metrics)]
    /\ UNCHANGED windowState

\* TermWindow's timer closure: ask for a repaint when the active tab has
\* dirty lines, close the window when it has no tab.
timer_result_invalidates_any_tab(st) ==
    LET tab == ActiveTab(st.win_tabs, st.win_active) IN
    IF tab # 0
    THEN [invalidate |-> TRUE, close |-> FALSE]
    ELSE [invalidate |-> FALSE, close |-> TRUE]

\* The timer closure as it would be if it left a window without a tab open.
timer_result_never_closes(st) ==
    LET tab == ActiveTab(st.win_tabs, st.win_active) IN
    IF tab # 0
    THEN [invalidate |-> st.term[tab].dirty # {}, close |-> FALSE]
    ELSE [invalidate |-> FALSE, close |-> FALSE]

timer_result(st) ==
    LET tab == ActiveTab(st.win_tabs, st.win_active) IN
    IF tab # 0
    THEN [invalidate |-> st.term[tab].dirty # {}, close |-> FALSE]
    ELSE [invalidate |-> FALSE, close |-> TRUE]

\* A tick of the timer new_window schedules on the connection every 35 ms.
\* The registration is never cancelled: it ticks between callbacks for as
\* long as the connection runs, also after can_close has returned true.
timer ==
    LET r == timer_result(State) IN
    /\ pc \in {"idle", "closed"}
    /\ out' = [call |-> "timer", invalidate |-> r.invalidate, close |-> r.close]
    /\ UNCHANGED windowState

(***************************************************************************)
(* Specifications.                                                         *)
(***************************************************************************)
\* The render cycle of a window with one tab: terminal output, paints with
\* their atlas recovery, and font size changes.
Next ==
    \/ \E s \in Screens : terminal_output(s)
    \/ paint
    \/ paint_recover
    \/ paint_return
    \/ \E k \in FontKeys : key_event(k)

Spec == Init /\ [][Next]_vars

\* The window and its tabs: spawning and closing tabs, resizes to other
\* sizes and dpi, smaller fonts, with text on the screen of the active tab.
NextWindow ==
    \/ terminal_output("text")
    \/ paint
    \/ paint_recover
    \/ paint_return
    \/ \E d \in ResizeDimensions : resize(d)
    \/ \E k \in ShrinkKeys \cup TabKeys : key_event(k)
    \/ can_close

SpecWindow == Init /\ [][NextWindow]_vars

\* Mouse and key input to a window whose cell size changes with the font
\* size and whose tabs are spawned and closed by keys.
NextInput ==
    \/ \E e \in MouseEvents : mouse_event(e)
    \/ \E k \in FontKeys \cup TabKeys \cup PlainKeys \cup KeyUps : key_event(k)

SpecInput == Init /\ [][NextInput]_vars

\* Key-down input to a window whose tabs are spawned, closed and switched
\* by keys and whose font shrinks and is reset by keys, and the GUI
\* executor running the futures that SpawnWindow queues.
NextKeys ==
    \/ \E k \in ShrinkKeys \cup TabKeys \cup ActionKeys \cup PlainKeys : key_event(k)
    \/ spawn_new_window_future

SpecKeys == Init /\ [][NextKeys]_vars

\* The fit scale, the foreground color and the decoration rows over their
\* inputs, each computed in the window as created.
NextFunctions ==
    \/ \E info \in ScaleInfos, glyph \in ScaleGlyphs, metrics \in ScaleMetrics :
          load_glyph_scale(info, glyph, metrics)
    \/ \E foreground \in ColorAttributes, intensity \in Intensities,
          style_foreground \in {"None", "Some"} :
          cluster_fg_color(foreground, intensity, style_foreground)
    \/ \E metrics \in DecorMetrics : decoration_rows(metrics)
    \/ \E n \in 0..(MaxTabs + 1), active \in 0..MaxTabs, delta \in (0 - MaxDelta)..MaxDelta :
          (active < n \/ active = 0) /\ tab_relative(n, active, delta)
    \/ \E info \in LoadInfos, glyph \in LoadBitmaps, metrics \in ScaleMetrics :
          load_glyph_bitmap(info, glyph, metrics)
    \/ \E reverse \in BOOLEAN, line_idx \in 0..(MaxRows - 1), cell_idx \in 0..(MaxCols - 1),
          cursor \in CursorPositions, selection \in Selections :
          cell_colors(reverse, line_idx, cell_idx, cursor, selection)

SpecFunctions == Init /\ [][NextFunctions]_vars

\* The frames of a terminal whose first line may hold no cell at all.
NextLines ==
    \/ \E s \in {"blank", "empty", "text", "swap"} : terminal_output(s)
    \/ paint
    \/ paint_recover
    \/ paint_return

SpecLines == Init /\ [][NextLines]_vars

\* Tabs spawned and closed in a window that is resized by single pixels.
NextSizes ==
    \/ \E d \in ShortDimensions : resize(d)
    \/ \E k \in TabKeys : key_event(k)
    \/ paint
    \/ paint_return

SpecSizes == Init /\ [][NextSizes]_vars

\* The timer beside the callbacks of a window whose tabs are spawned and
\* closed and whose active tab prints text, also text that fails to
\* rasterize.
NextTimer ==
    \/ \E s \in {"blank", "text", "norast"} : terminal_output(s)
    \/ paint
    \/ paint_recover
    \/ paint_return
    \/ \E k \in TabKeys : key_event(k)
    \/ can_close
    \/ timer

SpecTimer == Init /\ [][NextTimer]_vars

\* The same with the scheduling of the connection's event loop: the timer
\* fires every 35 ms, so it ticks again and again whenever the GUI thread
\* is between callbacks, and a paint callback that has finished its frame
\* returns.
SpecTimerFair == SpecTimer /\ SF_vars(timer) /\ WF_vars(paint_return)

(***************************************************************************)
(* Properties of the paint callback and its atlas recovery.                *)
(***************************************************************************)
\* A step of paint that runs paint_tab.
PaintStep == pc \in {"idle", "reenter"} /\ pc' \in {"recover", "done"}

AllLines(t) == 0..(t.rows - 1)

\* C1: within one paint request paint_tab runs at most twice and the atlas
\* is rebuilt at most once; a re-run that fails with OutOfTextureSpace again
\* ends the request (the frame is logged and skipped).
C1_AtMostOneRetry ==
    /\ frame.runs <= 2
    /\ frame.rebuilds <= 1
    /\ (frame.runs = 2 /\ frame.err.kind = "OutOfTextureSpace" => pc = "done")

\* C2: a paint_tab that fails with OutOfTextureSpace{size} is followed by the
\* recovery, the recovery puts a new atlas of side `size` in place of the
\* old one, empties the glyph cache and marks every line of the active tab
\* dirty, and the frame is only re-run from that state.
C2_RecoveryBeforeRerun ==
    [][/\ (PaintStep /\ frame'.err.kind = "OutOfTextureSpace" => pc' = "recover")
       /\ (pc = "recover" =>
              /\ pc' = "reenter"
              /\ atlas'.id # atlas.id
              /\ atlas' = Atlas_new(atlas'.id, frame.err.size)
              /\ glyph_cache' = EmptyCache
              /\ term'[ActiveTab(win_tabs, win_active)].dirty
                     = AllLines(term[ActiveTab(win_tabs, win_active)]))
       /\ (PaintStep /\ frame.err.kind = "OutOfTextureSpace" =>
              /\ pc = "reenter"
              /\ atlas.side = frame.err.size
              /\ atlas.left = 0
              /\ glyph_cache = EmptyCache
              /\ term[ActiveTab(win_tabs, win_active)].dirty
                     = AllLines(term[ActiveTab(win_tabs, win_active)]))]_vars

\* The recovery after a first exhaustion is done, the atlas has grown and
\* the frame is about to be re-run.
C2_Witness ==
    /\ pc = "reenter"
    /\ frame.rebuilds = 1
    /\ frame.err.kind = "OutOfTextureSpace"
    /\ atlas.side > InitialAtlasSide

\* C3: in a cache generation every lookup of a key returns the same entry
\* and the load (rasterization) of a key is performed at most once.
C3_LoadedAtMostOnce ==
    \A k \in AllKeys :
        /\ Cardinality(cache_gen.served[k]) <= 1
        /\ cache_gen.loads[k] <= 1

\* C4: every sprite of a cache entry, and every sprite a lookup has returned
\* since the last atlas rebuild, belongs to the surface of the atlas the
\* window holds and lies in its allocated part; and after a rebuild every
\* key, whether its load succeeds or fails, is rasterized at most once (a
\* key that has been used exactly once), a key with an entry having been
\* loaded and stored exactly once.  The window is constructed on surface 0
\* and every rebuild takes a surface other than the one held, so an atlas
\* on another surface is held only by a cache generation a rebuild began.
C4_RasterizedOncePerRebuild ==
    /\ \A k \in DOMAIN glyph_cache :
          /\ glyph_cache[k].has_texture =>
                /\ glyph_cache[k].texture.tex = atlas.id
                /\ glyph_cache[k].texture.left + glyph_cache[k].texture.width <= atlas.left
          /\ cache_gen.loads[k] = 1
          /\ cache_gen.stores[k] = 1
    /\ \A k \in AllKeys :
          /\ \A e \in cache_gen.served[k] : e.has_texture => e.texture.tex = atlas.id
          /\ cache_gen.served[k] # {} =>
                k \in DOMAIN glyph_cache /\ cache_gen.served[k] = {glyph_cache[k]}
          /\ atlas.id # 0 => cache_gen.loads[k] <= 1

(***************************************************************************)
(* Properties of the window callbacks.                                     *)
(***************************************************************************)
\* C5: can_close with an active tab removes exactly that tab from the
\* window and from the session and returns true iff the window is empty
\* afterwards, which is iff the tab was the window's last; without an
\* active tab it returns true and removes nothing.
C5_CanClose ==
    [][pc = "idle" /\ out'.call = "can_close" =>
          LET tab == ActiveTab(win_tabs, win_active) IN
          IF tab # 0
          THEN /\ out'.tab = tab
               /\ mux_tabs' = mux_tabs \ {tab}
               /\ Len(win_tabs') = Len(win_tabs) - 1
               /\ \A i \in 1..Len(win_tabs') :
                     win_tabs'[i] = IF i <= win_active THEN win_tabs[i] ELSE win_tabs[i + 1]
               /\ out'.ret = (Len(win_tabs') = 0)
               /\ out'.ret = (Len(win_tabs) = 1)
          ELSE /\ out'.ret
               /\ mux_tabs' = mux_tabs
               /\ win_tabs' = win_tabs]_vars

\* can_close has returned false for the first of two tabs and left one tab.
C5_Witness ==
    /\ out.call = "can_close"
    /\ ~out.ret
    /\ Len(win_tabs) = 1
    /\ Cardinality(mux_tabs) = 1

\* A resize, or a reset of the font size, that asks for the dpi and font
\* scale the window already has.
SameScaleRequest ==
    /\ pc = "idle"
    /\ \/ out'.call = "resize" /\ out'.dims.dpi = dimensions.dpi
       \/ /\ out'.call = "key_event"
          /\ out'.action.name = "ResetFontSize"
          /\ fonts.font_scale = RInt(1)

\* The dimensions the request of the step asks for.
RequestedDimensions == IF out'.call = "resize" THEN out'.dims ELSE dimensions

TabsOf(tabs) == {tabs[i] : i \in 1..Len(tabs)}

\* C6 as stated: a request with the current dpi and font scale changes
\* neither the stored dimensions, the cell size, the decoration rows, the
\* atlas, the glyph cache nor the size of any tab.
C6_NoOp ==
    [][SameScaleRequest =>
          /\ UNCHANGED <<dimensions, cell_size, decor, atlas, glyph_cache, fonts>>
          /\ \A id \in TabsOf(win_tabs) :
                term'[id].rows = term[id].rows /\ term'[id].cols = term[id].cols]_vars

\* C6 amended: a request with the current dpi and font scale leaves the cell
\* size, the decoration rows, the atlas, the glyph cache and the font
\* scaling unchanged, but stores the requested dimensions and resizes every
\* tab of the window to the rows and columns they give with the cell size
\* (pixel dimensions and cell size as 16-bit values).
C6_KeepsScalingStoresDimensions ==
    [][SameScaleRequest =>
          /\ UNCHANGED <<cell_size, decor, atlas, glyph_cache, fonts, win_tabs>>
          /\ dimensions' = RequestedDimensions
          /\ \A id \in TabsOf(win_tabs) :
                /\ term'[id].rows = AsU16(RequestedDimensions.pixel_height)
                                        \div AsU16(cell_size.height)
                /\ term'[id].cols = AsU16(RequestedDimensions.pixel_width)
                                        \div AsU16(cell_size.width)]_vars

\* A resize at the current dpi has stored new dimensions and given the tabs
\* another number of rows, with glyphs left in the cache.
C6_Witness ==
    /\ out.call = "resize"
    /\ ~out.rescaled
    /\ dimensions = out.dims
    /\ glyph_cache # EmptyCache
    /\ \A id \in TabsOf(win_tabs) : term[id].rows = MaxRows - 1
    /\ Len(win_tabs) > 0

\* C7: a request that changes the dpi or the font scale leaves an empty
\* glyph cache and a new, empty atlas of the side the atlas had before, and
\* every tab of the window has rows = pixel_height / cell_height and
\* cols = pixel_width / cell_width for the new cell size.
C7_Rescale ==
    [][dimensions'.dpi # dimensions.dpi \/ fonts'.font_scale # fonts.font_scale =>
          /\ glyph_cache' = EmptyCache
          /\ atlas'.id # atlas.id
          /\ atlas' = Atlas_new(atlas'.id, atlas.side)
          /\ cell_size' = CellSizeOf(default_font_metrics(fonts'))
          /\ \A id \in TabsOf(win_tabs') :
                /\ term'[id].rows = dimensions'.pixel_height \div cell_size'.height
                /\ term'[id].cols = dimensions'.pixel_width \div cell_size'.width]_vars

\* A resize to another dpi has rescaled a window of two tabs whose atlas had
\* grown in an exhaustion recovery.
C7_Witness ==
    /\ out.call = "resize"
    /\ out.rescaled
    /\ Len(win_tabs) = 2
    /\ atlas.side > InitialAtlasSide
    /\ atlas.left = 0
    /\ glyph_cache = EmptyCache

(***************************************************************************)
(* Properties of the frame a paint has produced.                           *)
(***************************************************************************)
\* The pixel rows a draw call covers.
RowsOf(o) == o.y..(o.y + (IF o.h > 0 THEN o.h ELSE 1) - 1)

\* The pixel rows of a terminal line.
LineRows(line_idx) == (line_idx * cell_size.height)..((line_idx + 1) * cell_size.height - 1)

\* C8: in a paint pass over the dirty lines D every cell clear, decoration
\* line and glyph blit lies in the pixel rows of a line of D, and
\* clean_dirty_lines has been called exactly once when the pass is over.
C8_DrawsOnlyDirtyRows ==
    pc = "done" /\ frame.tab # 0 /\ frame.err = NoError =>
        /\ \A i \in 1..Len(frame.ops) :
              frame.ops[i].op \in {"clear_rect", "draw_line", "draw_image"} =>
                  \E l \in frame.dirty_before : RowsOf(frame.ops[i]) \subseteq LineRows(l)
        /\ frame.cleaned = 1

\* C9: a shape or rasterize failure of one glyph does not end the frame:
\* every dirty line is rendered, the lines are marked clean and the frame
\* finishes without that error.
C9_GlyphFailureSkipsGlyph ==
    pc = "done" /\ frame.tab # 0 =>
        /\ frame.err.kind \notin {"shape", "rasterize_glyph"}
        /\ {frame.rendered[i] : i \in 1..Len(frame.rendered)} = frame.dirty_before
        /\ frame.cleaned = 1

\* C10: the button of a Move event is Left if the left button is held, else
\* Right if the right one is, else Middle if the middle one is, else None.
C10_MoveButtonPrecedence ==
    out.call = "mouse_event" /\ out.delivered /\ out.event.kind.kind = "Move" =>
        out.button = (IF "LEFT" \in out.event.mouse_buttons THEN "Left"
                      ELSE IF "RIGHT" \in out.event.mouse_buttons THEN "Right"
                      ELSE IF "MIDDLE" \in out.event.mouse_buttons THEN "Middle"
                      ELSE "None")

(***************************************************************************)
(* Properties of mouse wheel and key input.                                *)
(***************************************************************************)
\* The last callback asked the window for a repaint.
Invalidated == out.delivered /\ out.invalidate

\* C11: a vertical wheel event of amount a reaches the terminal as WheelUp
\* with |a| if a > 0 and as WheelDown with |a| if a < 0; a horizontal wheel
\* event delivers nothing to the terminal and requests no repaint.
C11_WheelEvents ==
    out.call = "mouse_event" =>
        /\ out.event.kind.kind = "VertWheel" /\ out.delivered =>
              /\ out.button = (IF out.event.kind.arg > 0 THEN "WheelUp" ELSE "WheelDown")
              /\ out.amount = Abs(out.event.kind.arg)
        /\ out.event.kind.kind = "HorzWheel" => ~out.delivered /\ ~Invalidated

\* The variables of the window, its tabs and its glyph cache.
windowVars == <<mux_tabs, spawn_queue, win_tabs, win_active, term, fonts, cell_size, dimensions,
                decor, glyph_cache, atlas, cache_gen, pc, frame>>

\* A step of key_event.
KeyStep == pc = "idle" /\ out'.call = "key_event"

\* C12: a key-up event returns false, writes nothing, forwards nothing, runs
\* no bound action and leaves the window, its tabs and the cache unchanged.
C12_KeyUpIgnored ==
    [][KeyStep /\ ~out'.key.key_is_down =>
          /\ ~out'.ret
          /\ out'.written = ""
          /\ ~out'.forwarded
          /\ out'.action = NoAssignment
          /\ UNCHANGED windowVars]_vars

\* The key-up of the key bound to CloseCurrentTab has left the tab open.
C12_Witness ==
    /\ out.call = "key_event"
    /\ ~out.key.key_is_down
    /\ out.key.code = "w"
    /\ out.key.mods = "SUPER"
    /\ Len(win_tabs) = 2

\* C13: a key-down of a mapped key code with an active tab either performs
\* the action the key table binds to (key, modifiers) and does not forward
\* the key, or, without a binding, forwards the key to the active tab and
\* performs no action.
C13_BoundOrForwarded ==
    [][/\ KeyStep
       /\ out'.key.key_is_down
       /\ out'.key.kind \in MappedKinds
       /\ ActiveTab(win_tabs, win_active) # 0
       => LET a == KeyMap_lookup(out'.key.code, out'.key.mods) IN
          IF a # NoAssignment
          THEN /\ out'.action = a
               /\ ~out'.forwarded
               /\ State' = perform_key_assignment(State, a, out'.tab_ok).st
          ELSE /\ out'.action = NoAssignment
               /\ out'.forwarded
               /\ UNCHANGED windowVars]_vars

\* A character without binding has been forwarded to the active tab after a
\* bound key had spawned a second tab.
C13_Witness ==
    /\ out.call = "key_event"
    /\ out.key.code = "a"
    /\ out.key.key_is_down
    /\ out.forwarded
    /\ out.action = NoAssignment
    /\ Len(win_tabs) = 2

\* C14: a key-down with composed text is written to the active tab's writer
\* and reported as handled, and no action runs although the key table has a
\* binding for the same character and modifiers; the text reaches the tab
\* when the write succeeds, and nothing does when it fails.
C14_ComposedBypassesKeyTable ==
    [][/\ KeyStep
       /\ out'.key.key_is_down
       /\ out'.key.kind = "Composed"
       /\ KeyMap_lookup(out'.key.code, out'.key.mods) # NoAssignment
       /\ ActiveTab(win_tabs, win_active) # 0
       => /\ out'.ret
          /\ out'.written = (IF out'.tab_ok THEN out'.key.code ELSE "")
          /\ out'.action = NoAssignment
          /\ ~out'.forwarded
          /\ UNCHANGED windowVars]_vars

\* Composed text spelling the SpawnTab key has been written to the only tab.
C14_Witness ==
    /\ out.call = "key_event"
    /\ out.key.kind = "Composed"
    /\ out.key.key_is_down
    /\ out.written = "t"
    /\ out.ret
    /\ Len(win_tabs) = 1

\* C20: a SpawnTab for a domain that does not resolve ends with an error as
\* the result of the action, and tab list, active tab, dimensions, atlas,
\* glyph cache and the rest of the window are as before; the window goes on
\* taking events.
C20_FailedActionKeepsWindow ==
    [][/\ KeyStep
       /\ out'.action.name = "SpawnTab"
       /\ out'.action.arg = "DomainName(missing)"
       => /\ ~out'.action_ok
          /\ pc' = "idle"
          /\ UNCHANGED windowVars]_vars

\* The failed SpawnTab has left a window with one tab and cached glyphs.
C20_Witness ==
    /\ out.call = "key_event"
    /\ ~out.action_ok
    /\ out.action.name = "SpawnTab"
    /\ Len(win_tabs) = 1
    /\ glyph_cache # EmptyCache

(***************************************************************************)
(* Properties of the fit scale, the foreground color and the decoration    *)
(* rows.                                                                   *)
(***************************************************************************)
\* The advance of the last scaled glyph exceeds the cell width per cell, as
\* an exact quotient and rounded down to whole pixels.
AdvanceExceedsCell ==
    RLess(RMul(out.cell_width, RInt(out.info.num_cells)), out.info.x_advance)

WholeAdvanceExceedsCell ==
    \E k \in 1..(2 * MaxAdvance) :
        /\ RLess(out.cell_width, RInt(k))
        /\ ~RLess(out.info.x_advance, RInt(k * out.info.num_cells))

\* The scale of the last scaled glyph by the rule that follows the test of
\* the advance: `horizontal` tells whether the advance was found too wide.
ScaleRule(horizontal) ==
    IF horizontal
    THEN RMul(out.scale, out.info.x_advance) = RMul(RInt(out.info.num_cells), out.cell_width)
    ELSE IF RLess(out.cell_height, RInt(out.glyph.height))
         THEN RMul(out.scale, RInt(out.glyph.height)) = out.cell_height
         ELSE out.scale = RInt(1)

\* C15 (as stated): whenever x_advance / num_cells, as an exact quotient,
\* exceeds cell_width the scale is num_cells * cell_width / x_advance;
\* otherwise a glyph taller than the cell gets cell_height / glyph_height,
\* and any other glyph gets 1.
C15_FitScaleExactQuotient ==
    out.call = "load_glyph_scale" => ScaleRule(AdvanceExceedsCell)

\* C15 (amended): the horizontal scale num_cells * cell_width / x_advance is
\* chosen whenever x_advance / num_cells rounded down to whole pixels
\* exceeds cell_width; otherwise a glyph taller than the cell gets
\* cell_height / glyph_height, and any other glyph gets 1.
C15_FitScaleWholePixels ==
    out.call = "load_glyph_scale" => ScaleRule(WholeAdvanceExceedsCell)

\* A glyph of two cells with advance 19 in cells 8 wide (9.5 a cell) got the
\* scale 16/19.
C15_Witness ==
    /\ out.call = "load_glyph_scale"
    /\ out.info = [x_advance |-> RInt(19), num_cells |-> 2]
    /\ out.cell_width = RInt(8)
    /\ out.scale = Rat(16, 19)

\* C16: a palette index i in 0..7 resolves to the color of index i + 8 when
\* the cell is bold and to the color of index i otherwise; an index i >= 8
\* resolves to the color of index i whatever the intensity.
C16_PaletteBrightening ==
    out.call = "fg_color" /\ out.foreground.kind = "PaletteIndex" =>
        LET i == out.foreground.idx IN
        /\ out.color.color = "indexed"
        /\ i \in 0..7 /\ out.intensity = "Bold" => out.color.idx = i + 8
        /\ i \in 0..7 /\ out.intensity # "Bold" => out.color.idx = i
        /\ i >= 8 => out.color.idx = i

\* Bold text of palette index 3 got the color of index 11.
C16_Witness ==
    /\ out.call = "fg_color"
    /\ out.foreground = [kind |-> "PaletteIndex", idx |-> 3]
    /\ out.intensity = "Bold"
    /\ out.color = [color |-> "indexed", idx |-> 11]

\* The four decoration rows of a decor record lie within a cell of the
\* given height.
RowsWithin(d, cell_height) ==
    \A row \in {d.descender_plus_one, d.descender_row, d.descender_plus_two, d.strike_row} :
        row \in 0..(cell_height - 1)

\* C17: the single-underline row, both double-underline rows and the
\* strikethrough row lie in 0 .. cell_height - 1, in the window as created
\* and rescaled and for every descender the font metrics report.
C17_DecorationRowsWithinCell ==
    /\ RowsWithin(decor, cell_size.height)
    /\ out.call = "decoration_rows" => RowsWithin(out.decor, out.cell_height)

(***************************************************************************)
(* Properties of the timer.                                                *)
(***************************************************************************)
\* C18: once can_close has returned true the timer does not tick for the
\* window and no paint of the window is issued.
C18_NoTickAfterTeardown ==
    pc = "closed" => out.call \notin {"timer", "paint"}

\* C19: a tick of the timer asks for a repaint if and only if the window
\* has an active tab and that tab has dirty lines.
C19_TickInvalidatesIffDirty ==
    [][out'.call = "timer" /\ pc \in {"idle", "closed"} =>
          (out'.invalidate <=>
              /\ ActiveTab(win_tabs, win_active) # 0
              /\ term[ActiveTab(win_tabs, win_active)].dirty # {})]_vars

\* A tick found the active tab without dirty lines and asked for nothing.
C19_Witness ==
    /\ out.call = "timer"
    /\ ActiveTab(win_tabs, win_active) # 0
    /\ term[ActiveTab(win_tabs, win_active)].dirty = {}
    /\ ~out.invalidate
    /\ ~out.close

(***************************************************************************)
(* Properties of the draw calls of a line.                                 *)
(***************************************************************************)
\* The draw calls of the last paint_tab.
FrameOps == {frame.ops[i] : i \in 1..Len(frame.ops)}

ImageOps == {o \in FrameOps : o.op = "draw_image"}

\* The clears of the cell a draw call belongs to.
CellClears(o) ==
    {i \in 1..Len(frame.ops) :
        /\ frame.ops[i].op = "clear_rect"
        /\ frame.ops[i].line = o.line
        /\ frame.ops[i].cell = o.cell}

\* The cell of a draw call has been cleared once, as the rectangle of the cell.
ClearedOnce(o) ==
    /\ Cardinality(CellClears(o)) = 1
    /\ \A i \in CellClears(o) :
          /\ frame.ops[i].x = o.cell * cell_size.width
          /\ frame.ops[i].y = o.line * cell_size.height
          /\ frame.ops[i].w = cell_size.width
          /\ frame.ops[i].h = cell_size.height

\* C21 (as stated): a sprite is blitted at x = cell_x + bearing_x in the
\* first cell of its glyph and cell_x in the others, and at
\* y = cell_y + cell_height - (y_offset + bearing_y); its cell has one
\* background clear.
C21_BlitAtBearing ==
    \A o \in ImageOps :
        /\ o.x = RTrunc(RAdd(RInt(o.cell * cell_size.width),
                             IF o.glyph_idx = 0 THEN o.glyph.bearing_x ELSE RInt(0)))
        /\ o.y = RTrunc(RSub(RInt(o.line * cell_size.height + cell_size.height),
                             RAdd(o.glyph.y_offset, o.glyph.bearing_y)))
        /\ ClearedOnce(o)

\* C21 (amended): a sprite is blitted at x = cell_x + x_offset + bearing_x
\* in the first cell of its glyph and cell_x in the others, and at
\* y = cell_y + (cell_height + descender) - (y_offset + bearing_y), both
\* truncated to whole pixels; its cell has one background clear.
C21_BlitAtBaseline ==
    \A o \in ImageOps :
        /\ o.x = RTrunc(RAdd(RInt(o.cell * cell_size.width),
                             IF o.glyph_idx = 0
                             THEN RAdd(o.glyph.x_offset, o.glyph.bearing_x)
                             ELSE RInt(0)))
        /\ o.y = RTrunc(RSub(RAdd(RInt(o.line * cell_size.height + cell_size.height),
                                  decor.descender),
                             RAdd(o.glyph.y_offset, o.glyph.bearing_y)))
        /\ ClearedOnce(o)

\* On the 8 x 16 grid the one-cell glyph "T" (x_offset 1, bearing_y 15) at
\* column 0 of row 0, with default attributes, was blitted at (1, -2) after
\* one clear of (0, 0, 8, 16) and without underline or strikethrough.
C21_Witness ==
    /\ pc = "done"
    /\ frame.err = NoError
    /\ cell_size = [width |-> 8, height |-> 16]
    /\ \E o \in ImageOps :
          /\ o.line = 0 /\ o.cell = 0 /\ o.glyph_idx = 0
          /\ o.glyph.x_offset = RInt(1) /\ o.glyph.bearing_y = RInt(15)
          /\ o.x = 1 /\ o.y = -2
          /\ ClearedOnce(o)
          /\ ~\E d \in FrameOps : d.op = "draw_line" /\ d.line = 0 /\ d.cell = 0

\* C22: the cell at the cursor gets the cursor colors whether or not it is
\* selected; a selected cell that is not at the cursor gets the selection
\* colors; any other cell keeps the colors of its cluster, foreground and
\* background swapped under reverse video.
C22_CursorThenSelection ==
    out.call = "compute_cell_fg_bg" =>
        LET at_cursor == out.cursor = [x |-> out.cell_idx, y |-> out.line_idx]
            selected  == out.cell_idx \in out.selection.start..(out.selection.end - 1)
        IN  /\ at_cursor => out.colors = [fg |-> "cursor_fg", bg |-> "cursor_bg"]
            /\ selected /\ ~at_cursor =>
                  out.colors = [fg |-> "selection_fg", bg |-> "selection_bg"]
            /\ ~selected /\ ~at_cursor /\ out.reverse =>
                  out.colors = [fg |-> "bg", bg |-> "fg"]
            /\ ~selected /\ ~at_cursor /\ ~out.reverse =>
                  out.colors = [fg |-> "fg", bg |-> "bg"]

\* A selected cell under the cursor got the cursor colors.
C22_Witness ==
    /\ out.call = "compute_cell_fg_bg"
    /\ out.cursor = [x |-> out.cell_idx, y |-> out.line_idx]
    /\ out.selection = [start |-> 0, end |-> MaxCols]
    /\ out.colors = [fg |-> "cursor_fg", bg |-> "cursor_bg"]

(***************************************************************************)
(* Properties of the glyph cache entries.                                  *)
(***************************************************************************)
\* C23: a loaded glyph with a sprite stores the scale 1.0 and its sprite
\* has the size of the bitmap resampled by the fit scale; a loaded glyph
\* has no sprite if and only if its bitmap has no width or no height, and
\* then it stores the fit scale and nothing was allocated in the atlas.
C23_SpriteScaleOne ==
    out.call = "load_glyph" /\ out.result.err = NoError =>
        LET g     == out.result.glyph
            empty == out.bitmap.width = 0 \/ out.bitmap.height = 0
        IN  /\ g.has_texture =>
                  /\ g.scale = RInt(1)
                  /\ g.texture.width = RTrunc(RMul(RInt(out.bitmap.width), out.scale))
                  /\ g.texture.height = RTrunc(RMul(RInt(out.bitmap.height), out.scale))
                  /\ out.result.atlas # out.atlas
            /\ ~g.has_texture <=> empty
            /\ empty => g.scale = out.scale /\ out.result.atlas = out.atlas

\* A bitmap without width whose advance is too wide for its cell was
\* loaded without a sprite and stores a fit scale below 1.
C23_Witness ==
    /\ out.call = "load_glyph"
    /\ out.bitmap.width = 0 /\ out.bitmap.height = 14
    /\ out.result.err = NoError
    /\ ~out.result.glyph.has_texture
    /\ out.result.glyph.scale = out.scale
    /\ RLess(out.scale, RInt(1))

\* The GlyphInfo the shaper gives for the glyph of a key.
InfoOf(key) == shape(fonts, <<CharOfGlyph(key.font_idx, key.glyph_pos)>>).glyphs[1]

\* The keys whose load has failed in the current cache generation.
FailedKeys(gen) == {k \in AllKeys : gen.loads[k] > gen.stores[k]}

\* C24: when the allocation for a new glyph fails with OutOfTextureSpace the
\* frame ends with that error and the size the atlas asked for, no entry
\* has been inserted for the failing key, and every entry the cache held
\* before the frame is still there.
C24_ExhaustionLeavesCache ==
    [][PaintStep /\ pc' = "recover" =>
          /\ frame'.err.kind = "OutOfTextureSpace"
          /\ \E k \in FailedKeys(cache_gen') :
                load_glyph(fonts, atlas', InfoOf(k), k.style).err = frame'.err
          /\ \A k \in FailedKeys(cache_gen') : k \notin DOMAIN glyph_cache'
          /\ \A k \in DOMAIN glyph_cache :
                k \in DOMAIN glyph_cache' /\ glyph_cache'[k] = glyph_cache[k]]_vars

\* A frame ended with OutOfTextureSpace for a key that has no entry while
\* the cache holds the entries of other keys.
C24_Witness ==
    /\ pc = "recover"
    /\ frame.err.kind = "OutOfTextureSpace"
    /\ DOMAIN glyph_cache # {}
    /\ \E k \in FailedKeys(cache_gen) :
          /\ k \notin DOMAIN glyph_cache
          /\ load_glyph(fonts, atlas, InfoOf(k), k.style).err = frame.err

\* C25: after a line is rendered without error every column of its row has
\* been cleared as a cell rectangle, whatever the line holds, and the
\* margin right of the last column has been cleared.
C25_EveryColumnCleared ==
    pc = "done" /\ frame.tab # 0 /\ frame.err = NoError =>
        \A i \in 1..Len(frame.rendered) :
            LET l == frame.rendered[i] IN
            /\ \A c \in 0..(term[frame.tab].cols - 1) :
                  \E o \in FrameOps :
                      /\ o.op = "clear_rect" /\ o.line = l /\ o.cell = c
                      /\ o.x = c * cell_size.width /\ o.y = l * cell_size.height
                      /\ o.w = cell_size.width /\ o.h = cell_size.height
            /\ \E o \in FrameOps :
                  /\ o.op = "clear_margin" /\ o.line = l
                  /\ o.x = term[frame.tab].cols * cell_size.width
                  /\ o.y = l * cell_size.height

\* C26: no cell clear, decoration line or glyph blit of a frame is issued
\* for a column at or beyond the physical column count of the terminal.
C26_NoDrawBeyondLastColumn ==
    frame.tab # 0 =>
        \A o \in FrameOps :
            o.op \in {"clear_rect", "draw_line", "draw_image"} =>
                o.cell < term[frame.tab].cols

\* A terminal one column wide rendered the line holding the two-cell glyph:
\* the glyph was blitted in column 0.
C26_Witness ==
    /\ pc = "done"
    /\ frame.tab # 0
    /\ frame.err = NoError
    /\ term[frame.tab].cols = 1
    /\ term[frame.tab].lines[1] = "wide"
    /\ \E o \in ImageOps : o.line = 0 /\ o.cell = 0 /\ o.glyph_idx = 0

(***************************************************************************)
(* Properties of the window title, the tab sizes and the tab selection.    *)
(***************************************************************************)
\* C27: after a successful paint the title of the window is the title of
\* the active tab when the window has one tab, and "[i/n] title" with i the
\* active index counted from 1 and n the number of tabs when it has more.
C27_TitleAfterPaint ==
    out.call = "paint" /\ pc = "done" /\ frame.tab # 0 /\ frame.err = NoError =>
        /\ out.title.set
        /\ Len(win_tabs) = 1 => out.title.title = Tab_get_title(win_tabs[1])
        /\ Len(win_tabs) > 1 =>
              out.title.title =
                  "[" \o ToString(win_active + 1) \o "/" \o ToString(Len(win_tabs)) \o "] "
                      \o Tab_get_title(win_tabs[win_active + 1])

\* The second of two tabs was painted and the title became "[2/2] " and
\* the title of that tab.
C27_Witness ==
    /\ out.call = "paint" /\ pc = "done" /\ frame.err = NoError
    /\ Len(win_tabs) = 2 /\ win_active = 1
    /\ out.title = [set |-> TRUE, title |-> "[2/2] " \o Tab_get_title(win_tabs[2])]

\* C28: the cells of every tab of the window fit the window, rows *
\* cell_height <= pixel_height and cols * cell_width <= pixel_width, and
\* no margin a paint clears has a negative width or height, nor does the
\* subtraction that computes it panic.
C28_TabsFitWindow ==
    /\ \A i \in 1..Len(win_tabs) :
          /\ term[win_tabs[i]].rows * cell_size.height <= dimensions.pixel_height
          /\ term[win_tabs[i]].cols * cell_size.width <= dimensions.pixel_width
    /\ \A o \in FrameOps : o.op = "clear_margin" => o.w >= 0 /\ o.h >= 0
    /\ ~frame.panic

\* C29: on a window with n > 0 tabs activate_tab_relative(d) makes the
\* active index (a + d) mod n, the non-negative remainder, and changes
\* nothing else; on a window without tabs it fails and changes nothing.
C29_RelativeIsModular ==
    out.call = "activate_tab_relative" =>
        /\ ~out.changed
        /\ out.tabs > 0 =>
              out.ok /\ out.new_active = (out.active + out.delta) % out.tabs
        /\ out.tabs = 0 => ~out.ok /\ out.new_active = out.active

(***************************************************************************)
(* Properties of failed frames.                                            *)
(***************************************************************************)
\* C30: a paint_tab run that fails does not mark lines clean: the lines
\* that were dirty stay dirty and a timer tick then asks for a repaint;
\* clean_dirty_lines is called only by a run that rendered every dirty
\* line without error.
C30_FailedFrameStaysDirty ==
    [][PaintStep /\ frame'.tab # 0 =>
          /\ frame'.err # NoError =>
                /\ frame'.cleaned = frame.cleaned
                /\ term'[frame'.tab].dirty = term[frame'.tab].dirty
                /\ term'[frame'.tab].dirty # {}
                /\ timer_result(State').invalidate
          /\ frame'.cleaned > frame.cleaned \/ term'[frame'.tab].dirty # term[frame'.tab].dirty =>
                /\ frame'.err = NoError
                /\ {frame'.rendered[i] : i \in 1..Len(frame'.rendered)} = term[frame'.tab].dirty
                /\ term'[frame'.tab].dirty = {}]_vars

\* A frame failed on a glyph that does not rasterize and left its lines
\* dirty.
C30_Witness ==
    /\ pc = "done"
    /\ frame.err.kind = "rasterize_glyph"
    /\ frame.cleaned = 0
    /\ term[frame.tab].dirty = frame.dirty_before
    /\ frame.dirty_before # {}
    /\ timer_result(State).invalidate

(***************************************************************************)
(* Properties of a window without tabs.                                    *)
(***************************************************************************)
\* The window is open, between callbacks, and has no active tab.
LeftWithoutTab == pc = "idle" /\ ActiveTab(win_tabs, win_active) = 0

\* The last callback was a tick of the timer that called close on the window.
ClosedByTick == out.call = "timer" /\ out.close

\* C31: a window left without an active tab is eventually closed by a tick
\* of the timer: the tick calls close on the window, the window has no
\* active tab at that tick, and no tick asks for a repaint while the window
\* has no active tab.
C31_TablessWindowClosed ==
    /\ LeftWithoutTab ~> ClosedByTick
    /\ [](out.call = "timer" /\ ActiveTab(win_tabs, win_active) = 0 =>
              out.close /\ ~out.invalidate)
    /\ [][out'.call = "timer" /\ out' # out =>
              (out'.close <=> ActiveTab(win_tabs, win_active) = 0)]_vars

\* close_current_tab removed the last tab, the window stayed open, and the
\* next tick called close on it.
C31_Witness ==
    /\ pc = "idle"
    /\ Len(win_tabs) = 0
    /\ mux_tabs = {}
    /\ ClosedByTick
    /\ ~out.invalidate

=============================================================================
